---- MODULE Spec2Model ----
(***************************************************************************)
(* signalk-mqtt-export: the rule matching and dispatch engine of the       *)
(* plugin (src/unnamed/part_000, lines 661-1217), as a state machine.      *)
(*                                                                         *)
(* Node runs every handler to completion, so each handler (plugin.start,   *)
(* plugin.stop, a route handler, the savePluginOptions callback, one       *)
(* emission of the stream source) is one atomic action.  What is           *)
(* asynchronous in the code is asynchronous here: the persistence callback *)
(* of POST /api/rules and the bus client's connect/close events.           *)
(*                                                                         *)
(* JavaScript strings that the code inspects (paths, contexts, sources,    *)
(* exclusion lists, templates, topics, payloads) are sequences of          *)
(* one-character strings, so that endsWith, startsWith, slice, includes,   *)
(* split, trim and replace are computed as the code computes them.         *)
(***************************************************************************)
EXTENDS Integers, Sequences, FiniteSets, TLC

(***************************************************************************)
(* String literals of the code and of the inputs.                          *)
(***************************************************************************)
STAR == <<"*">>
vessels_self == <<"v", "e", "s", "s", "e", "l", "s", ".", "s", "e", "l", "f">>
vessels_all == <<"v", "e", "s", "s", "e", "l", "s", ".", "*">>
vessels_urn_all == <<"v", "e", "s", "s", "e", "l", "s", ".", "u", "r", "n", ":", "*">>
ctx_own == <<"v", "e", "s", "s", "e", "l", "s", ".", "u", "r", "n", ":", "m", "r", "n", ":", "i", "m", "o", ":", "m", "m", "s", "i", ":", "3", "6", "8", "3", "9", "6", "2", "3", "0">>
ctx_ais == <<"v", "e", "s", "s", "e", "l", "s", ".", "u", "r", "n", ":", "m", "r", "n", ":", "i", "m", "o", ":", "m", "m", "s", "i", ":", "2", "1", "1">>
derived_data == <<"d", "e", "r", "i", "v", "e", "d", "-", "d", "a", "t", "a">>
anchoralarm == <<"a", "n", "c", "h", "o", "r", "a", "l", "a", "r", "m">>
own_mmsi == <<"3", "6", "8", "3", "9", "6", "2", "3", "0">>
template_m == <<"m", "/", "{", "c", "o", "n", "t", "e", "x", "t", "}", "/", "{", "p", "a", "t", "h", "}">>
one == <<"1">>
navigation_all == <<"n", "a", "v", "i", "g", "a", "t", "i", "o", "n", "*">>
navigation_position == <<"n", "a", "v", "i", "g", "a", "t", "i", "o", "n", ".", "p", "o", "s", "i", "t", "i", "o", "n">>
navigation == <<"n", "a", "v", "i", "g", "a", "t", "i", "o", "n">>
electrical_navigation == <<"e", "l", "e", "c", "t", "r", "i", "c", "a", "l", ".", "n", "a", "v", "i", "g", "a", "t", "i", "o", "n">>
tok_context == <<"{", "c", "o", "n", "t", "e", "x", "t", "}">>
tok_path == <<"{", "p", "a", "t", "h", "}">>
gps0 == <<"g", "p", "s", "0">>
pypilot == <<"p", "y", "p", "i", "l", "o", "t">>
test_suffix == <<"/", "s", "i", "g", "n", "a", "l", "k", "-", "m", "q", "t", "t", "-", "e", "x", "p", "o", "r", "t", "-", "t", "e", "s", "t">>
test_word == <<"t", "e", "s", "t">>
marine == <<"m", "a", "r", "i", "n", "e">>

\* JavaScript's undefined for a string-valued field: a sequence no string equals.
undefined == <<"(undefined)">>

\* JavaScript truthiness of a string-valued field: neither undefined nor "".
Truthy(s) == s # undefined /\ s # <<>>

(***************************************************************************)
(* String.prototype methods, on sequences of characters.                   *)
(***************************************************************************)
endsWith(s, suffix) ==
    /\ Len(suffix) <= Len(s)
    /\ SubSeq(s, Len(s) - Len(suffix) + 1, Len(s)) = suffix

startsWith(s, prefix) ==
    /\ Len(prefix) <= Len(s)
    /\ SubSeq(s, 1, Len(prefix)) = prefix

\* s.slice(0, -1)
sliceDropLast(s) == IF Len(s) = 0 THEN <<>> ELSE SubSeq(s, 1, Len(s) - 1)

\* s.includes(sub): sub occurs at some offset; the empty string occurs in every string.
includes(s, sub) ==
    \E i \in 0..(Len(s) - Len(sub)) : SubSeq(s, i + 1, i + Len(sub)) = sub

\* The offset (from 0) of the first occurrence of sub in s, or -1.
indexOf(s, sub) ==
    IF includes(s, sub)
    THEN CHOOSE i \in 0..(Len(s) - Len(sub)) :
            /\ SubSeq(s, i + 1, i + Len(sub)) = sub
            /\ \A j \in 0..(i - 1) : SubSeq(s, j + 1, j + Len(sub)) # sub
    ELSE -1

\* s.replace(token, value) with a string pattern: the first occurrence only.
replaceAt(s, i, token, value) ==
    IF i < 0 THEN s
    ELSE SubSeq(s, 1, i) \o value \o SubSeq(s, i + Len(token) + 1, Len(s))

replaceFirst(s, token, value) == replaceAt(s, indexOf(s, token), token, value)

\* s.replace(/\./g, '/')
replaceDots(s) == [i \in 1..Len(s) |-> IF s[i] = "." THEN "/" ELSE s[i]]

RECURSIVE trimStart(_)
trimStart(s) == IF Len(s) > 0 /\ s[1] = " " THEN trimStart(Tail(s)) ELSE s

RECURSIVE trimEnd(_)
trimEnd(s) ==
    IF Len(s) > 0 /\ s[Len(s)] = " " THEN trimEnd(SubSeq(s, 1, Len(s) - 1)) ELSE s

\* s.trim()
trim(s) == trimEnd(trimStart(s))

\* s.split(','): the pieces between commas, empty pieces included.
RECURSIVE splitAt(_, _)
splitAt(s, i) ==
    IF i < 0 THEN <<s>>
    ELSE <<SubSeq(s, 1, i)>>
            \o splitAt(SubSeq(s, i + 2, Len(s)), indexOf(SubSeq(s, i + 2, Len(s)), <<",">>))

split(s) == splitAt(s, indexOf(s, <<",">>))

(***************************************************************************)
(* Telemetry values (PathValue.value): a tagged variant.  Numbers are kept *)
(* in tenths, so that 42.5 is a value; an object is its members in         *)
(* insertion order, each a key and a number.                               *)
(***************************************************************************)
Num(tenths) == [t |-> "number", n |-> tenths, s |-> <<>>, b |-> FALSE, o |-> <<>>]
Str(chars) == [t |-> "string", n |-> 0, s |-> chars, b |-> FALSE, o |-> <<>>]
Bool(v) == [t |-> "boolean", n |-> 0, s |-> <<>>, b |-> v, o |-> <<>>]
Null == [t |-> "null", n |-> 0, s |-> <<>>, b |-> FALSE, o |-> <<>>]
Obj(members) == [t |-> "object", n |-> 0, s |-> <<>>, b |-> FALSE, o |-> members]

\* typeof value === 'object' (typeof null is 'object').
typeofObject(v) == v.t \in {"object", "null"}

Digit(d) == CASE d = 0 -> "0" [] d = 1 -> "1" [] d = 2 -> "2" [] d = 3 -> "3"
              [] d = 4 -> "4" [] d = 5 -> "5" [] d = 6 -> "6" [] d = 7 -> "7"
              [] d = 8 -> "8" [] d = 9 -> "9"

RECURSIVE natToString(_)
natToString(k) ==
    IF k < 10 THEN <<Digit(k)>> ELSE natToString(k \div 10) \o <<Digit(k % 10)>>

\* String(n) of a non-negative number given in tenths: 425 is "42.5", 10 is "1".
numberToString(tenths) ==
    natToString(tenths \div 10)
        \o (IF tenths % 10 = 0 THEN <<>> ELSE <<".", Digit(tenths % 10)>>)

quote(s) == <<"\"">> \o s \o <<"\"">>

RECURSIVE membersToJSON(_)
membersToJSON(ms) ==
    IF Len(ms) = 0 THEN <<>>
    ELSE quote(ms[1].k) \o <<":">> \o numberToString(ms[1].n)
            \o (IF Len(ms) > 1 THEN <<",">> ELSE <<>>)
            \o membersToJSON(Tail(ms))

\* JSON.stringify(value)
JSONstringify(v) ==
    CASE v.t = "number" -> numberToString(v.n)
      [] v.t = "string" -> quote(v.s)
      [] v.t = "boolean" -> IF v.b THEN <<"t", "r", "u", "e">> ELSE <<"f", "a", "l", "s", "e">>
      [] v.t = "null" -> <<"n", "u", "l", "l">>
      [] v.t = "object" -> <<"{">> \o membersToJSON(v.o) \o <<"}">>

\* String(value) of a primitive.
String(v) ==
    CASE v.t = "number" -> numberToString(v.n)
      [] v.t = "string" -> v.s
      [] v.t = "boolean" -> IF v.b THEN <<"t", "r", "u", "e">> ELSE <<"f", "a", "l", "s", "e">>
      [] OTHER -> JSONstringify(v)

\* typeof value === 'object' ? JSON.stringify(value) : String(value)
valueString(v) == IF typeofObject(v) THEN JSONstringify(v) ELSE String(v)

(***************************************************************************)
(* Export rules (ExportRule, src/src/types.ts).  sendOnChange is "true",   *)
(* "false" or "undefined" (the field left unset); a period or qos left     *)
(* unset is 0, which `rule.period || 1000` and `rule.qos || 0` treat alike. *)
(***************************************************************************)
ExportRule(id, context, path, source, excludeMMSI, enabled, period, qos, retain, payloadFormat, sendOnChange, topicTemplate) ==
    [id |-> id, context |-> context, path |-> path, source |-> source,
     excludeMMSI |-> excludeMMSI, enabled |-> enabled, period |-> period,
     qos |-> qos, retain |-> retain, payloadFormat |-> payloadFormat,
     sendOnChange |-> sendOnChange, topicTemplate |-> topicTemplate]

\* A delta is [context, updates], an update [src, label, values] ($source and
\* source.label), a value update [path, value].  A missing updates or values
\* array behaves as an empty one: both make the handler do nothing.
Delta(context, updates) == [context |-> context, updates |-> updates]
Update(src, label, values) == [src |-> src, label |-> label, values |-> values]
PathValue(path, value) == [path |-> path, value |-> value]

\* `${x}` of a string-valued field.
templateString(s) ==
    IF s = undefined THEN <<"u", "n", "d", "e", "f", "i", "n", "e", "d">> ELSE s

(***************************************************************************)
(* The checks of the find callback of handleSignalKData, each "true",      *)
(* "false" or "throw" (a TypeError from calling a method on undefined).    *)
(***************************************************************************)
\* pathMatch with the wildcard prefix looked for anywhere in the path.
pathMatchAnywhere(rulePath, path) ==
    IF rulePath = STAR THEN "true"
    ELSE IF rulePath = path THEN "true"
    ELSE IF rulePath = undefined THEN "throw"
    ELSE IF endsWith(rulePath, STAR)
         THEN IF path = undefined THEN "throw"
              ELSE IF includes(path, sliceDropLast(rulePath)) THEN "true"
              ELSE "false"
    ELSE "false"

pathMatch(rulePath, path) ==
    IF rulePath = STAR THEN "true"
    ELSE IF rulePath = path THEN "true"
    ELSE IF rulePath = undefined THEN "throw"
    ELSE IF endsWith(rulePath, STAR)
         THEN IF path = undefined THEN "throw"
              ELSE IF startsWith(path, sliceDropLast(rulePath)) THEN "true"
              ELSE "false"
    ELSE "false"

\* update.$source || update.source?.label
sourceLabel(update) == IF Truthy(update.src) THEN update.src ELSE update.label

\* The source check with the rule's source trimmed before the comparison.
sourceMatchTrimmed(ruleSource, update) ==
    \/ ~Truthy(ruleSource)
    \/ ~Truthy(trim(ruleSource))
    \/ trim(ruleSource) = sourceLabel(update)

sourceMatch(ruleSource, update) ==
    \/ ~Truthy(ruleSource)
    \/ ~Truthy(trim(ruleSource))
    \/ ruleSource = sourceLabel(update)

\* The trimmed entries of the exclusion list.
\* parts.map(mmsi => mmsi.trim())
trimEach(parts) == [i \in 1..Len(parts) |-> trim(parts[i])]

\* The entries of the exclusion list as split, not trimmed.
excludedMMSIsUntrimmed(excludeMMSI) == split(excludeMMSI)

excludedMMSIs(excludeMMSI) == trimEach(split(excludeMMSI))

\* excludedMMSIs.some(mmsi => delta.context.includes(mmsi))
someIncluded(context, mmsis) == \E i \in 1..Len(mmsis) : includes(context, mmsis[i])

contextHasExcludedMMSI(excludeMMSI, context) ==
    /\ Truthy(excludeMMSI)
    /\ Truthy(trim(excludeMMSI))
    /\ Truthy(context)
    /\ someIncluded(context, excludedMMSIs(excludeMMSI))

\* The checks after the path check, whose outcome is pm.
afterPathMatch(pm, r, delta, update) ==
    IF pm # "true" THEN pm
    ELSE IF ~sourceMatch(r.source, update) THEN "false"
    ELSE IF contextHasExcludedMMSI(r.excludeMMSI, delta.context) THEN "false"
    ELSE "true"

ruleMatches(r, delta, update, valueUpdate) ==
    IF ~r.enabled THEN "false"
    ELSE afterPathMatch(pathMatch(r.path, valueUpdate.path), r, delta, update)

\* find with the last matching rule winning.
RECURSIVE findRuleLast(_, _, _, _, _)
findRuleLast(contextRules, i, delta, update, valueUpdate) ==
    IF i > Len(contextRules) THEN [idx |-> 0, threw |-> FALSE]
    ELSE IF findRuleLast(contextRules, i + 1, delta, update, valueUpdate).idx # 0
    THEN findRuleLast(contextRules, i + 1, delta, update, valueUpdate)
    ELSE IF ruleMatches(contextRules[i], delta, update, valueUpdate) = "true"
    THEN [idx |-> i, threw |-> FALSE]
    ELSE [idx |-> 0, threw |-> FALSE]

\* contextRules.find(...): the index of the first rule from i on whose callback
\* returns true (0: none), or the exception the callback raised on the way.
RECURSIVE findRule(_, _, _, _, _)
findStep(m, contextRules, i, delta, update, valueUpdate) ==
    IF m = "throw" THEN [idx |-> 0, threw |-> TRUE]
    ELSE IF m = "true" THEN [idx |-> i, threw |-> FALSE]
    ELSE findRule(contextRules, i + 1, delta, update, valueUpdate)

findRule(contextRules, i, delta, update, valueUpdate) ==
    IF i > Len(contextRules) THEN [idx |-> 0, threw |-> FALSE]
    ELSE findStep(ruleMatches(contextRules[i], delta, update, valueUpdate),
                  contextRules, i, delta, update, valueUpdate)

(***************************************************************************)
(* The change filter.  lastSentValues is a function from keys to values;   *)
(* a key outside its domain reads as undefined.                            *)
(***************************************************************************)
EmptyMap == [k \in {} |-> Null]

MapSet(m, key, value) ==
    [k \in (DOMAIN m) \cup {key} |-> IF k = key THEN value ELSE m[k]]

valueKey(context, path) == templateString(context) \o <<":">> \o templateString(path)

\* The comparison with a first observation recorded but reported as no change.
compareWithLastSilentFirst(lsv, valueKey_, value) ==
    IF valueKey_ \in DOMAIN lsv /\ valueString(value) # valueString(lsv[valueKey_])
    THEN [hasChanged |-> TRUE, lsv |-> MapSet(lsv, valueKey_, value)]
    ELSE [hasChanged |-> FALSE, lsv |-> MapSet(lsv, valueKey_, value)]

compareWithLast(lsv, valueKey_, value) ==
    IF valueKey_ \in DOMAIN lsv /\ valueString(value) = valueString(lsv[valueKey_])
    THEN [hasChanged |-> FALSE, lsv |-> lsv]
    ELSE [hasChanged |-> TRUE, lsv |-> MapSet(lsv, valueKey_, value)]

\* The check that leaves the recording of the value to a later moment.
checkValueChangeUnrecorded(lsv, context, path, value) ==
    [hasChanged |-> compareWithLast(lsv, valueKey(context, path), value).hasChanged,
     lsv |-> lsv]

\* [hasChanged, lastSentValues afterwards]
checkValueChange(lsv, context, path, value) ==
    compareWithLast(lsv, valueKey(context, path), value)

(***************************************************************************)
(* Topic and payload.                                                      *)
(***************************************************************************)
\* The topic with the dots of the prefix replaced as well.
buildTopicPrefixSlashed(topicPrefix, rule, context, path) ==
    (IF Truthy(topicPrefix) THEN replaceDots(topicPrefix) \o <<"/">> ELSE <<>>)
      \o (IF Truthy(rule.topicTemplate)
          THEN replaceDots(replaceFirst(replaceFirst(rule.topicTemplate, tok_context, context),
                                        tok_path, templateString(path)))
          ELSE replaceDots(context \o <<"/">> \o templateString(path)))

buildTopic(topicPrefix, rule, context, path) ==
    (IF Truthy(topicPrefix) THEN topicPrefix \o <<"/">> ELSE <<>>)
      \o (IF Truthy(rule.topicTemplate)
          THEN replaceDots(replaceFirst(replaceFirst(rule.topicTemplate, tok_context, context),
                                        tok_path, templateString(path)))
          ELSE replaceDots(context \o <<"/">> \o templateString(path)))

jsonField(name, json) == quote(name) \o <<":">> \o json

RECURSIVE joinComma(_)
joinComma(parts) ==
    IF Len(parts) = 0 THEN <<>>
    ELSE parts[1] \o (IF Len(parts) > 1 THEN <<",">> ELSE <<>>) \o joinComma(Tail(parts))

\* The fields of an object that are not undefined, as JSON.stringify keeps them.
jsonObject(fields) ==
    <<"{">> \o joinComma(SelectSeq(fields, LAMBDA f : f # undefined)) \o <<"}">>

jsonArray(items) == <<"[">> \o joinComma(items) \o <<"]">>

pathValueToJSON(pv) ==
    jsonObject(<<IF pv.path = undefined THEN undefined
                 ELSE jsonField(<<"p", "a", "t", "h">>, quote(pv.path)),
                 jsonField(<<"v", "a", "l", "u", "e">>, JSONstringify(pv.value))>>)

updateToJSON(u) ==
    jsonObject(<<IF u.src = undefined THEN undefined
                 ELSE jsonField(<<"$", "s", "o", "u", "r", "c", "e">>, quote(u.src)),
                 IF u.label = undefined THEN undefined
                 ELSE jsonField(<<"s", "o", "u", "r", "c", "e">>,
                                jsonObject(<<jsonField(<<"l", "a", "b", "e", "l">>, quote(u.label))>>)),
                 jsonField(<<"v", "a", "l", "u", "e", "s">>,
                           jsonArray([i \in 1..Len(u.values) |-> pathValueToJSON(u.values[i])]))>>)

\* JSON.stringify(delta)
deltaToJSON(delta) ==
    jsonObject(<<IF delta.context = undefined THEN undefined
                 ELSE jsonField(<<"c", "o", "n", "t", "e", "x", "t">>, quote(delta.context)),
                 jsonField(<<"u", "p", "d", "a", "t", "e", "s">>,
                           jsonArray([i \in 1..Len(delta.updates) |-> updateToJSON(delta.updates[i])]))>>)

\* The payload with the value always serialized.
buildPayloadSerialized(rule, delta, value) ==
    IF rule.payloadFormat = "value-only" THEN JSONstringify(value) ELSE deltaToJSON(delta)

buildPayload(rule, delta, value) ==
    IF rule.payloadFormat = "value-only" THEN valueString(value) ELSE deltaToJSON(delta)

\* delta.context || 'vessels.self'
contextOf(delta) == IF Truthy(delta.context) THEN delta.context ELSE vessels_self

\* The publish call: topic, payload, { qos: rule.qos || 0, retain: rule.retain || false }
publishCall(prefix, delta, context, path, value, rule) ==
    [topic |-> buildTopic(prefix, rule, context, path),
     payload |-> buildPayload(rule, delta, value),
     qos |-> rule.qos,
     retain |-> rule.retain]

\* With the change filter consulted, its answer being changeResult.
publishIfChanged(changeResult, prefix, delta, context, path, value, rule) ==
    IF ~changeResult.hasChanged
    THEN [lsv |-> changeResult.lsv, pubs |-> <<>>, consulted |-> TRUE]
    ELSE [lsv |-> changeResult.lsv,
          pubs |-> <<publishCall(prefix, delta, context, path, value, rule)>>,
          consulted |-> TRUE]

\* The publish with the value recorded also when the filter is bypassed.
publishValueRecording(lsv, prefix, delta, context, path, value, rule) ==
    IF rule.sendOnChange = "true"
    THEN publishIfChanged(checkValueChange(lsv, context, path, value),
                          prefix, delta, context, path, value, rule)
    ELSE [lsv |-> MapSet(lsv, valueKey(context, path), value),
          pubs |-> <<publishCall(prefix, delta, context, path, value, rule)>>,
          consulted |-> FALSE]

publishValue(lsv, prefix, delta, context, path, value, rule) ==
    IF rule.sendOnChange = "true"
    THEN publishIfChanged(checkValueChange(lsv, context, path, value),
                          prefix, delta, context, path, value, rule)
    ELSE [lsv |-> lsv,
          pubs |-> <<publishCall(prefix, delta, context, path, value, rule)>>,
          consulted |-> FALSE]

\* [lastSentValues afterwards, the publish calls made (none or one), whether the
\* change filter was consulted]
publishToMQTT(lsv, prefix, delta, update, valueUpdate, rule) ==
    publishValue(lsv, prefix, delta, contextOf(delta), valueUpdate.path,
                 valueUpdate.value, rule)

(***************************************************************************)
(* handleSignalKData: the updates and their values in order.  The result   *)
(* is the change map afterwards, the publish calls made, whether an        *)
(* exception left the handler, and one log entry per value update handled: *)
(* the index of the rule selected in contextRules (0: none), whether the   *)
(* change filter was consulted, what the change map held for the key when  *)
(* the value arrived (no or one value) and how many publish calls the      *)
(* value has caused.                                                       *)
(***************************************************************************)
RECURSIVE forEachValue(_, _, _, _, _, _)

logEntry(lsv, delta, ui, vi, found, p) ==
    [ui |-> ui, vi |-> vi, rule |-> found.idx, consulted |-> p.consulted,
     published |-> Len(p.pubs), threw |-> found.threw,
     stored |-> IF valueKey(contextOf(delta), delta.updates[ui].values[vi].path) \in DOMAIN lsv
                THEN <<lsv[valueKey(contextOf(delta), delta.updates[ui].values[vi].path)]>>
                ELSE <<>>]

NothingPublished(lsv) == [lsv |-> lsv, pubs |-> <<>>, consulted |-> FALSE]

\* The value updates after this one handled against the change map as it was
\* before this one.
afterPublishStale(acc, p, prefix, delta, contextRules, ui, vi, found) ==
    forEachValue([lsv |-> acc.lsv, pubs |-> acc.pubs \o p.pubs, threw |-> FALSE,
                  log |-> Append(acc.log, logEntry(acc.lsv, delta, ui, vi, found, p))],
                 prefix, delta, contextRules, ui, vi + 1)

\* The value update handled with the rule selected for it, p being what
\* publishToMQTT did; then the value updates after it.
afterPublish(acc, p, prefix, delta, contextRules, ui, vi, found) ==
    forEachValue([lsv |-> p.lsv, pubs |-> acc.pubs \o p.pubs, threw |-> FALSE,
                  log |-> Append(acc.log, logEntry(acc.lsv, delta, ui, vi, found, p))],
                 prefix, delta, contextRules, ui, vi + 1)

\* The value update once contextRules.find has returned `found`.
afterFind(acc, found, prefix, delta, contextRules, ui, vi) ==
    IF found.threw
    THEN [acc EXCEPT !.threw = TRUE,
                     !.log = Append(@, logEntry(acc.lsv, delta, ui, vi, found,
                                                NothingPublished(acc.lsv)))]
    ELSE IF found.idx = 0
    THEN afterPublish(acc, NothingPublished(acc.lsv), prefix, delta, contextRules,
                      ui, vi, found)
    ELSE afterPublish(acc,
                      publishToMQTT(acc.lsv, prefix, delta, delta.updates[ui],
                                    delta.updates[ui].values[vi], contextRules[found.idx]),
                      prefix, delta, contextRules, ui, vi, found)

forEachValue(acc, prefix, delta, contextRules, ui, vi) ==
    IF acc.threw \/ ui > Len(delta.updates) THEN acc
    ELSE IF vi > Len(delta.updates[ui].values)
    THEN forEachValue(acc, prefix, delta, contextRules, ui + 1, 1)
    ELSE afterFind(acc,
                   findRule(contextRules, 1, delta, delta.updates[ui],
                            delta.updates[ui].values[vi]),
                   prefix, delta, contextRules, ui, vi)

\* handleSignalKData without the check of the bus client.
handleSignalKDataUnguarded(lsv, clientConnected, prefix, delta, contextRules) ==
    forEachValue([lsv |-> lsv, pubs |-> <<>>, threw |-> FALSE, log |-> <<>>],
                 prefix, delta, contextRules, 1, 1)

\* clientConnected: state.mqttClient && state.mqttClient.connected
handleSignalKData(lsv, clientConnected, prefix, delta, contextRules) ==
    IF ~clientConnected
    THEN [lsv |-> lsv, pubs |-> <<>>, threw |-> FALSE, log |-> <<>>]
    ELSE forEachValue([lsv |-> lsv, pubs |-> <<>>, threw |-> FALSE, log |-> <<>>],
                      prefix, delta, contextRules, 1, 1)

(***************************************************************************)
(* updateSubscriptions.  A Map is the sequence of its entries in insertion *)
(* order.  A subscription held by the stream source is [context,           *)
(* subscribe, rules]: the request and the rule list its delta callback     *)
(* has captured; its unsubscribe handle is the subscription itself.        *)
(***************************************************************************)
MapHas(m, key) == \E i \in 1..Len(m) : m[i].key = key

MapIndex(m, key) == CHOOSE i \in 1..Len(m) : m[i].key = key

\* The rule's group: rule.context || 'vessels.self'
groupContext(rule) == IF Truthy(rule.context) THEN rule.context ELSE vessels_self

\* if (!contextGroups.has(context)) contextGroups.set(context, [])
withGroup(contextGroups, context) ==
    IF MapHas(contextGroups, context) THEN contextGroups
    ELSE Append(contextGroups, [key |-> context, val |-> <<>>])

\* contextGroups.get(context).push(rule)
pushRule(contextGroups, context, rule) ==
    [contextGroups EXCEPT ![MapIndex(contextGroups, context)].val = Append(@, rule)]

RECURSIVE groupRules(_, _)
groupRules(contextGroups, rules) ==
    IF Len(rules) = 0 THEN contextGroups
    ELSE groupRules(pushRule(withGroup(contextGroups, groupContext(rules[1])),
                             groupContext(rules[1]), rules[1]),
                    Tail(rules))

\* The grouping without the filter on enabled.
buildContextGroupsAll(exportRules) == groupRules(<<>>, exportRules)

buildContextGroups(exportRules) ==
    groupRules(<<>>, SelectSeq(exportRules, LAMBDA rule : rule.enabled))

subscriptionFor(group) ==
    [context |-> group.key,
     subscribe |-> [i \in 1..Len(group.val) |->
                      [path |-> group.val[i].path,
                       period |-> IF group.val[i].period # 0 THEN group.val[i].period ELSE 1000]],
     rules |-> group.val]

\* The stream source's subscriptions once every handle of unsubs has been called.
callUnsubscribes(subs, unsubs) ==
    SelectSeq(subs, LAMBDA s : \A i \in 1..Len(unsubs) : unsubs[i] # s)

\* contextGroups.forEach: one subscription per group, in the order of the groups.
subscribeGroups(contextGroups) ==
    [i \in 1..Len(contextGroups) |-> subscriptionFor(contextGroups[i])]

\* updateSubscriptions keeping the handles of the previous plan.
installGroupsRetaining(contextGroups, created, unsubs, subs) ==
    [unsubscribes |-> unsubs \o created,
     activeSubscriptions |-> contextGroups,
     subscriptions |-> callUnsubscribes(subs, unsubs) \o created,
     invoked |-> unsubs]

\* invoked: the handles called on the way, in order.
installGroups(contextGroups, created, unsubs, subs) ==
    [unsubscribes |-> created,
     activeSubscriptions |-> contextGroups,
     subscriptions |-> callUnsubscribes(subs, unsubs) \o created,
     invoked |-> unsubs]

\* updateSubscriptions with the new rules pushed onto the groups of the old plan.
updateSubscriptionsMerging(rules, unsubs, subs) ==
    installGroups(groupRules([i \in 1..Len(unsubs) |->
                                [key |-> unsubs[i].context, val |-> unsubs[i].rules]],
                             SelectSeq(rules, LAMBDA rule : rule.enabled)),
                  subscribeGroups(groupRules([i \in 1..Len(unsubs) |->
                                                [key |-> unsubs[i].context,
                                                 val |-> unsubs[i].rules]],
                                             SelectSeq(rules, LAMBDA rule : rule.enabled))),
                  unsubs, subs)

\* [unsubscribes, activeSubscriptions, subscriptions of the stream source]
\* afterwards, and the handles invoked
updateSubscriptions(rules, unsubs, subs) ==
    installGroups(buildContextGroups(rules), subscribeGroups(buildContextGroups(rules)),
                  unsubs, subs)

(***************************************************************************)
(* getDefaultExportRules                                                   *)
(***************************************************************************)
DefaultRule(id, context, path, source, excludeMMSI) ==
    ExportRule(id, context, path, source, excludeMMSI, TRUE, 1000, 0, FALSE, "full",
               "true", undefined)

getDefaultExportRules ==
    << DefaultRule("all-navigation", vessels_self, navigation_all, <<>>, undefined),
       DefaultRule("derived-data", vessels_self, STAR, derived_data, undefined),
       DefaultRule("pypilot", vessels_self, STAR, pypilot, undefined),
       DefaultRule("anchoralarm", vessels_self, STAR, anchoralarm, undefined),
       DefaultRule("all-vessels", vessels_all, STAR, <<>>, own_mmsi),
       DefaultRule("ais-vessels", vessels_urn_all, STAR, <<>>, own_mmsi) >>

(***************************************************************************)
(* Bounds, and the inputs the environment draws from.                      *)
(***************************************************************************)
\* Rule-set updates whose persistence callback is outstanding at once.
MaxPending == 1

\* A disabled rule, then two rules of the self context that both match
\* navigation paths, with different delivery settings.
RulesSelf ==
    << ExportRule("off", vessels_self, STAR, <<>>, undefined, FALSE, 1000, 2,
                  TRUE, "value-only", "false", undefined),
       ExportRule("nav", vessels_self, navigation_all, <<>>, undefined, TRUE, 1000, 0,
                  FALSE, "full", "true", undefined),
       ExportRule("all", undefined, STAR, <<>>, undefined, TRUE, 500, 1,
                  TRUE, "value-only", "false", template_m) >>

\* Rules of two context patterns that both cover every vessel.
RulesFleet ==
    << ExportRule("fleet", vessels_all, STAR, <<>>, undefined, TRUE, 1000, 0,
                  FALSE, "value-only", "false", undefined),
       ExportRule("ais", vessels_urn_all, STAR, gps0, own_mmsi, TRUE, 1000, 2,
                  FALSE, "value-only", "true", undefined) >>

\* An array the rule-set request takes as it is: two rules with the same id,
\* the first without path and period and with a qos that is no level.
RulesLoose ==
    << ExportRule("dup", vessels_self, undefined, <<>>, undefined, TRUE, 0, 3,
                  FALSE, "full", "true", undefined),
       ExportRule("dup", vessels_self, STAR, <<>>, undefined, TRUE, 1000, 0,
                  FALSE, "full", "true", undefined) >>

RuleSets == {RulesSelf, RulesFleet, RulesLoose}

\* The options the host hands to plugin.start.
StartOptions ==
    { [enabled |-> TRUE, topicPrefix |-> <<>>, hasRules |-> FALSE, exportRules |-> <<>>],
      [enabled |-> TRUE, topicPrefix |-> marine, hasRules |-> TRUE, exportRules |-> RulesSelf],
      [enabled |-> FALSE, topicPrefix |-> <<>>, hasRules |-> TRUE, exportRules |-> RulesFleet] }

\* Request bodies of POST /api/rules.
RuleBodies ==
    { [isArray |-> TRUE, rules |-> rs] : rs \in RuleSets }
      \cup { [isArray |-> FALSE, rules |-> <<>>] }

\* A delta of one update from source gps0 with the given value updates.
DeltaOf(context, values) == Delta(context, << Update(gps0, undefined, values) >>)

\* The deltas the stream source emits: a position of the own vessel and of
\* another vessel.
Deltas ==
    { DeltaOf(c, << PathValue(navigation_position, Num(10)) >>) : c \in {ctx_own, ctx_ais} }

\* For the dispatch path: values of every type, among them values of different
\* types with the same string form and objects with the same members in a
\* different order.
Values ==
    { Num(10), Str(one), Num(425), Null, Str(<<"n", "u", "l", "l">>),
      Bool(TRUE), Str(<<"t", "r", "u", "e">>),
      Obj(<< [k |-> <<"a">>, n |-> 10], [k |-> <<"b">>, n |-> 20] >>),
      Obj(<< [k |-> <<"b">>, n |-> 20], [k |-> <<"a">>, n |-> 10] >>) }

DispatchOptions ==
    { [enabled |-> TRUE, topicPrefix |-> marine, hasRules |-> TRUE, exportRules |-> RulesSelf],
      [enabled |-> TRUE, topicPrefix |-> <<>>, hasRules |-> TRUE, exportRules |-> RulesFleet] }

DispatchDeltas ==
    { DeltaOf(ctx_own, << PathValue(navigation_position, v) >>) : v \in Values }
      \cup { DeltaOf(ctx_own, << PathValue(electrical_navigation, Num(10)) >>),
             DeltaOf(ctx_own, << PathValue(electrical_navigation, Num(10)),
                                 PathValue(navigation_position, Num(10)) >>),
             DeltaOf(ctx_ais, << PathValue(navigation_position, Num(10)) >>) }

(***************************************************************************)
(* The stream source: a subscription of context pattern `pattern` receives *)
(* the deltas of the contexts the pattern covers; 'vessels.self' is the    *)
(* server's own vessel.                                                    *)
(***************************************************************************)
contextMatches(pattern, context) ==
    IF pattern = vessels_self THEN context = ctx_own
    ELSE IF endsWith(pattern, STAR) THEN startsWith(context, sliceDropLast(pattern))
    ELSE pattern = context

(***************************************************************************)
(* The state: the fields of PluginState, the part of plugin.config the     *)
(* engine reads, and the environment: the bus clients not yet ended, the   *)
(* stream source's subscriptions, the persistence calls in flight.         *)
(* `lifecycle` and `step` record history: whether start or stop ran last,  *)
(* and what the last handler did.  `probe` holds the arguments and the     *)
(* result of one evaluation of a check of the match engine.  `inflight`   *)
(* tells whether publish calls of the dispatch path still await the        *)
(* callback of the bus client, `outdated` the keys of the change filter    *)
(* whose stored value is not the value most recently handed to publish.    *)
(***************************************************************************)
VARIABLES mqttClient, connected, exportRules, activeSubscriptions, lastSentValues,
          currentConfig, unsubscribes, orphaned, subscriptions, pending,
          lifecycle, step, probe, inflight, outdated

vars == <<mqttClient, connected, exportRules, activeSubscriptions, lastSentValues,
          currentConfig, unsubscribes, orphaned, subscriptions, pending,
          lifecycle, step, probe, inflight, outdated>>

NoProbe == [rulePath |-> <<>>, path |-> <<>>, result |-> "none"]

NoConfig == [defined |-> FALSE, enabled |-> FALSE, topicPrefix |-> <<>>]

NoDelta == Delta(undefined, <<>>)

\* What a handler did: the operation, the publish calls made, the HTTP status
\* answered (0: none), whether an exception left the handler; for a persistence
\* or publish callback whether an error was reported, for a start whether
\* connect() threw; for a test publish the topic of the answer; for a
\* persistence callback the rules of its request; for an emission whether it
\* comes right after a publish callback with an error ("failure") or right
\* after the 'connect' event ("connect"); for a rule-set
\* request whether its rules field was not an array and the rule set it found
\* in memory; the error text of a failure answer; the unsubscribe handles
\* invoked; for an emission the delta, whether
\* the bus was connected, and per callback invoked the rule list it evaluated
\* and its log.
Step(op) ==
    [op |-> op, pubs |-> <<>>, status |-> 0, threw |-> FALSE, err |-> FALSE,
     malformed |-> FALSE, before |-> <<>>, error |-> "", unsubscribed |-> <<>>, delta |-> NoDelta, connected |-> FALSE,
     calls |-> <<>>, topic |-> <<>>, submitted |-> <<>>, after |-> ""]

EngineIdle ==
    /\ mqttClient = 0
    /\ connected = FALSE
    /\ exportRules = <<>>
    /\ activeSubscriptions = <<>>
    /\ lastSentValues = EmptyMap
    /\ currentConfig = NoConfig
    /\ unsubscribes = <<>>
    /\ orphaned = FALSE
    /\ subscriptions = <<>>
    /\ pending = <<>>
    /\ lifecycle = "constructed"
    /\ step = Step("init")
    /\ inflight = FALSE
    /\ outdated = {}

Init == EngineIdle /\ probe = NoProbe

\* state.mqttClient && state.mqttClient.connected
clientConnected == mqttClient # 0 /\ connected

topicPrefix == IF currentConfig.defined THEN currentConfig.topicPrefix ELSE <<>>

(***************************************************************************)
(* plugin.start.  connect() either returns a new client, not yet           *)
(* connected, or throws; initializeMQTTClient catches the exception and    *)
(* leaves state.mqttClient as it was.                                      *)
(***************************************************************************)
\* The effect of updateSubscriptions(), u being its result.
install(u) ==
    /\ unsubscribes' = u.unsubscribes
    /\ activeSubscriptions' = u.activeSubscriptions
    /\ subscriptions' = u.subscriptions

\* The persistence callback without an error, for the request that submitted
\* `rules`: updateSubscriptions(), u being its result, and the answer.
saved(rules, u) ==
    /\ install(u)
    /\ step' = [Step("saveCallback") EXCEPT !.status = 200, !.unsubscribed = u.invoked,
                                            !.submitted = rules]

\* start giving up when the bus client cannot be created.
startedAborting(connectThrows, u) ==
    IF connectThrows
    THEN /\ step' = [Step("start") EXCEPT !.err = TRUE]
         /\ UNCHANGED <<unsubscribes, activeSubscriptions, subscriptions>>
    ELSE /\ install(u)
         /\ step' = [Step("start") EXCEPT !.unsubscribed = u.invoked]

\* The end of plugin.start: updateSubscriptions(), u being its result, whether
\* or not connect() has thrown.
started(connectThrows, u) ==
    /\ install(u)
    /\ step' = [Step("start") EXCEPT !.err = connectThrows, !.unsubscribed = u.invoked]

initializeMQTTClient(connectThrows) ==
    IF connectThrows
    THEN UNCHANGED <<mqttClient, connected, orphaned>>
    ELSE /\ mqttClient' = 1
         /\ connected' = FALSE
         /\ orphaned' = (orphaned \/ mqttClient # 0)

\* options?.exportRules || getDefaultExportRules()
rulesOf(options) ==
    IF options.hasRules THEN options.exportRules ELSE getDefaultExportRules

start(options, connectThrows) ==
    /\ exportRules' = rulesOf(options)
    /\ currentConfig' = [defined |-> TRUE, enabled |-> options.enabled,
                         topicPrefix |-> options.topicPrefix]
    /\ lifecycle' = "running"
    /\ UNCHANGED <<lastSentValues, pending, probe, inflight, outdated>>
    /\ IF ~options.enabled
       THEN /\ step' = Step("start")
            /\ UNCHANGED <<mqttClient, connected, orphaned, activeSubscriptions,
                           unsubscribes, subscriptions>>
       ELSE /\ initializeMQTTClient(connectThrows)
            /\ started(connectThrows,
                       updateSubscriptions(rulesOf(options), unsubscribes, subscriptions))

(***************************************************************************)
(* plugin.stop                                                             *)
(***************************************************************************)
\* stop without ending and dropping the bus client.
stopKeepingClient ==
    /\ subscriptions' = callUnsubscribes(subscriptions, unsubscribes)
    /\ unsubscribes' = <<>>
    /\ activeSubscriptions' = <<>>
    /\ lastSentValues' = EmptyMap
    /\ lifecycle' = "stopped"
    /\ step' = [Step("stop") EXCEPT !.unsubscribed = unsubscribes]
    /\ UNCHANGED <<mqttClient, connected, orphaned, exportRules, currentConfig,
                   pending, probe, inflight, outdated>>

stop ==
    /\ mqttClient' = 0
    /\ connected' = FALSE
    /\ UNCHANGED orphaned
    /\ subscriptions' = callUnsubscribes(subscriptions, unsubscribes)
    /\ unsubscribes' = <<>>
    /\ activeSubscriptions' = <<>>
    /\ lastSentValues' = EmptyMap
    /\ lifecycle' = "stopped"
    /\ step' = [Step("stop") EXCEPT !.unsubscribed = unsubscribes]
    /\ UNCHANGED <<exportRules, currentConfig, pending, probe, inflight, outdated>>

(***************************************************************************)
(* POST /api/rules, and the callback of app.savePluginOptions, which the   *)
(* host runs later, with or without an error, the requests in any order.   *)
(***************************************************************************)
\* The request with at most `bound` persistence calls in flight.
postRulesWithin(body, bound) ==
    IF ~body.isArray
    THEN /\ step' = [Step("postRules") EXCEPT !.status = 400, !.malformed = TRUE,
                                              !.error = "Rules must be an array"]
         /\ UNCHANGED <<mqttClient, connected, exportRules, activeSubscriptions,
                        lastSentValues, currentConfig, unsubscribes, orphaned,
                        subscriptions, pending, lifecycle, probe, inflight, outdated>>
    ELSE /\ Len(pending) < bound
         /\ exportRules' = body.rules
         /\ pending' = Append(pending, [newRules |-> body.rules])
         /\ step' = [Step("postRules") EXCEPT !.before = exportRules]
         /\ UNCHANGED <<mqttClient, connected, activeSubscriptions, lastSentValues,
                        currentConfig, unsubscribes, orphaned, subscriptions,
                        lifecycle, probe, inflight, outdated>>

\* POST /api/rules without the check of the rules field.
postRulesUnchecked(body) ==
    /\ Len(pending) < MaxPending
    /\ exportRules' = body.rules
    /\ pending' = Append(pending, [newRules |-> body.rules])
    /\ step' = [Step("postRules") EXCEPT !.before = exportRules,
                                         !.malformed = ~body.isArray]
    /\ UNCHANGED <<mqttClient, connected, activeSubscriptions, lastSentValues,
                   currentConfig, unsubscribes, orphaned, subscriptions,
                   lifecycle, probe, inflight, outdated>>

postRules(body) == postRulesWithin(body, MaxPending)

\* The callback that rebuilds the subscriptions from the rules of its own
\* request.
saveCallbackOwnRules(i, err) ==
    /\ pending' = SubSeq(pending, 1, i - 1) \o SubSeq(pending, i + 1, Len(pending))
    /\ UNCHANGED <<mqttClient, connected, exportRules, lastSentValues,
                   currentConfig, orphaned, lifecycle, probe, inflight, outdated>>
    /\ IF err
       THEN /\ step' = [Step("saveCallback") EXCEPT !.status = 500, !.err = TRUE,
                                                    !.error = "Failed to save configuration",
                                                    !.submitted = pending[i].newRules]
            /\ UNCHANGED <<activeSubscriptions, unsubscribes, subscriptions>>
       ELSE saved(pending[i].newRules,
                  updateSubscriptions(pending[i].newRules, unsubscribes, subscriptions))

saveCallback(i, err) ==
    /\ pending' = SubSeq(pending, 1, i - 1) \o SubSeq(pending, i + 1, Len(pending))
    /\ UNCHANGED <<mqttClient, connected, exportRules, lastSentValues,
                   currentConfig, orphaned, lifecycle, probe, inflight, outdated>>
    /\ IF err
       THEN /\ step' = [Step("saveCallback") EXCEPT !.status = 500, !.err = TRUE,
                                                    !.error = "Failed to save configuration",
                                                    !.submitted = pending[i].newRules]
            /\ UNCHANGED <<activeSubscriptions, unsubscribes, subscriptions>>
       ELSE saved(pending[i].newRules,
                  updateSubscriptions(exportRules, unsubscribes, subscriptions))

(***************************************************************************)
(* One emission of the stream source: the delta goes, in subscription      *)
(* order, to the delta callback of each subscription in `chosen` (indexes  *)
(* of subscriptions whose context pattern covers the delta), and each      *)
(* callback runs handleSignalKData with the rule list it captured.         *)
(***************************************************************************)
RECURSIVE deliver(_, _, _, _)

\* The callback of subscription i has run, h being what handleSignalKData did.
afterCallback(acc, h, delta, chosen, i) ==
    deliver([lsv |-> h.lsv, pubs |-> acc.pubs \o h.pubs,
             threw |-> acc.threw \/ h.threw,
             calls |-> Append(acc.calls,
                              [context |-> subscriptions[i].context,
                               rules |-> subscriptions[i].rules,
                               log |-> h.log, pubs |-> h.pubs])],
            delta, chosen, i + 1)

deliver(acc, delta, chosen, i) ==
    IF i > Len(subscriptions) THEN acc
    ELSE IF i \notin chosen THEN deliver(acc, delta, chosen, i + 1)
    ELSE afterCallback(acc,
                       handleSignalKData(acc.lsv, clientConnected, topicPrefix, delta,
                                         subscriptions[i].rules),
                       delta, chosen, i)

covering(delta) ==
    {i \in 1..Len(subscriptions) : contextMatches(subscriptions[i].context, delta.context)}

\* The keys whose stored last value is not the value most recently handed to
\* publish, after the value updates k, k + 1, ... of the log of one callback:
\* a publish under the change filter stores its value, a publish that bypasses
\* the filter leaves the stored value as it is.
RECURSIVE outdatedInCall(_, _, _, _)
outdatedInCall(od, delta, log, k) ==
    IF k > Len(log) THEN od
    ELSE outdatedInCall(IF log[k].published = 0 THEN od
                        ELSE IF ~log[k].consulted /\ log[k].stored # <<>>
                                  /\ log[k].stored[1] # delta.updates[log[k].ui].values[log[k].vi].value
                        THEN od \cup {valueKey(contextOf(delta),
                                               delta.updates[log[k].ui].values[log[k].vi].path)}
                        ELSE od \ {valueKey(contextOf(delta),
                                            delta.updates[log[k].ui].values[log[k].vi].path)},
                        delta, log, k + 1)

\* The same after the callbacks ci, ci + 1, ... of an emission.
RECURSIVE outdatedInCalls(_, _, _, _)
outdatedInCalls(od, delta, calls, ci) ==
    IF ci > Len(calls) THEN od
    ELSE outdatedInCalls(outdatedInCall(od, delta, calls[ci].log, 1), delta, calls, ci + 1)

\* The state after the emission, d being what the callbacks did.
emitted(d, delta) ==
    /\ lastSentValues' = d.lsv
    /\ outdated' = outdatedInCalls(outdated, delta, d.calls, 1)
    /\ inflight' = (inflight \/ d.pubs # <<>>)
    /\ step' = [Step("emit") EXCEPT !.pubs = d.pubs, !.threw = d.threw,
                                     !.delta = delta, !.connected = clientConnected,
                                     !.calls = d.calls,
                                     !.after = IF step.op = "publishCallback" /\ step.err
                                               THEN "failure"
                                               ELSE IF step.op = "busConnect" THEN "connect"
                                               ELSE ""]

emit(delta, chosen) ==
    /\ chosen # {}
    /\ chosen \subseteq covering(delta)
    /\ emitted(deliver([lsv |-> lastSentValues, pubs |-> <<>>, threw |-> FALSE,
                        calls |-> <<>>], delta, chosen, 1), delta)
    /\ UNCHANGED <<mqttClient, connected, exportRules, activeSubscriptions,
                   currentConfig, unsubscribes, orphaned, subscriptions,
                   pending, lifecycle, probe>>

(***************************************************************************)
(* The bus client's events: 'connect' (also after a reconnect), 'close',   *)
(* 'error' and 'reconnect'.  The handlers only log.                        *)
(***************************************************************************)
busConnect ==
    /\ mqttClient # 0 /\ ~connected
    /\ connected' = TRUE
    /\ step' = Step("busConnect")
    /\ UNCHANGED <<mqttClient, exportRules, activeSubscriptions, lastSentValues,
                   currentConfig, unsubscribes, orphaned, subscriptions, pending,
                   lifecycle, probe, inflight, outdated>>

\* 'close' with the change filter reset.
busCloseClearing ==
    /\ mqttClient # 0 /\ connected
    /\ connected' = FALSE
    /\ lastSentValues' = EmptyMap
    /\ step' = Step("busClose")
    /\ UNCHANGED <<mqttClient, exportRules, activeSubscriptions,
                   currentConfig, unsubscribes, orphaned, subscriptions, pending,
                   lifecycle, probe, inflight, outdated>>

busClose ==
    /\ mqttClient # 0 /\ connected
    /\ connected' = FALSE
    /\ step' = Step("busClose")
    /\ UNCHANGED <<mqttClient, exportRules, activeSubscriptions, lastSentValues,
                   currentConfig, unsubscribes, orphaned, subscriptions, pending,
                   lifecycle, probe, inflight, outdated>>

\* 'error': the client stays as it is.
busError ==
    /\ mqttClient # 0
    /\ step' = Step("busError")
    /\ UNCHANGED <<mqttClient, connected, exportRules, activeSubscriptions,
                   lastSentValues, currentConfig, unsubscribes, orphaned,
                   subscriptions, pending, lifecycle, probe, inflight, outdated>>

\* 'reconnect': a disconnected client starts to connect again.
busReconnect ==
    /\ mqttClient # 0 /\ ~connected
    /\ step' = Step("busReconnect")
    /\ UNCHANGED <<mqttClient, connected, exportRules, activeSubscriptions,
                   lastSentValues, currentConfig, unsubscribes, orphaned,
                   subscriptions, pending, lifecycle, probe, inflight, outdated>>

(***************************************************************************)
(* The callback the dispatch path hands to publish: the bus client calls   *)
(* it once per publish call, with or without an error, at any later time;  *)
(* it only logs.  `more` tells whether other callbacks are still to come.  *)
(***************************************************************************)
\* The publish callback dropping the stored values on an error.
publishCallbackForgetting(err, more) ==
    /\ inflight
    /\ inflight' = more
    /\ lastSentValues' = IF err THEN EmptyMap ELSE lastSentValues
    /\ step' = [Step("publishCallback") EXCEPT !.err = err]
    /\ UNCHANGED <<mqttClient, connected, exportRules, activeSubscriptions,
                   currentConfig, unsubscribes, orphaned, subscriptions, pending,
                   lifecycle, probe, outdated>>

publishCallback(err, more) ==
    /\ inflight
    /\ inflight' = more
    /\ step' = [Step("publishCallback") EXCEPT !.err = err]
    /\ UNCHANGED <<mqttClient, connected, exportRules, activeSubscriptions,
                   lastSentValues, currentConfig, unsubscribes, orphaned,
                   subscriptions, pending, lifecycle, probe, outdated>>

(***************************************************************************)
(* POST /api/test-mqtt                                                     *)
(***************************************************************************)
\* The topic of the test publish without the stand-in of an empty prefix.
testTopicBare == topicPrefix \o test_suffix

testTopic == (IF Truthy(topicPrefix) THEN topicPrefix ELSE test_word) \o test_suffix

testMqtt ==
    /\ step' = IF ~clientConnected
               THEN [Step("testMqtt") EXCEPT !.status = 503, !.error = "MQTT not connected"]
               ELSE [Step("testMqtt") EXCEPT
                        !.status = 200,
                        !.topic = testTopic,
                        !.pubs = << [topic |-> testTopic, payload |-> test_word,
                                     qos |-> 0, retain |-> FALSE] >>]
    /\ UNCHANGED <<mqttClient, connected, exportRules, activeSubscriptions,
                   lastSentValues, currentConfig, unsubscribes, orphaned,
                   subscriptions, pending, lifecycle, probe, inflight, outdated>>

Next ==
    \/ \E options \in StartOptions, connectThrows \in BOOLEAN :
          start(options, connectThrows)
    \/ stop
    \/ \E body \in RuleBodies : postRules(body)
    \/ \E i \in 1..Len(pending), err \in BOOLEAN : saveCallback(i, err)
    \/ \E delta \in Deltas, chosen \in SUBSET (1..Len(subscriptions)) :
          emit(delta, chosen)
    \/ busConnect
    \/ busClose
    \/ busError
    \/ busReconnect
    \/ \E err \in BOOLEAN, more \in BOOLEAN : publishCallback(err, more)
    \/ testMqtt

Spec == Init /\ [][Next]_vars

\* The dispatch path alone: no rule-set updates, and deltas of many values.
NextDispatch ==
    \/ \E options \in DispatchOptions : start(options, FALSE)
    \/ stop
    \/ \E delta \in DispatchDeltas, chosen \in SUBSET (1..Len(subscriptions)) :
          emit(delta, chosen)
    \/ busConnect
    \/ busClose
    \/ \E err \in BOOLEAN, more \in BOOLEAN : publishCallback(err, more)

SpecDispatch == Init /\ [][NextDispatch]_vars

\* Rule-set updates, up to MaxUpdates of them in flight at a time, among
\* deliveries of two values of one key.
MaxUpdates == 2

UpdateDeltas ==
    { DeltaOf(ctx_own, << PathValue(navigation_position, v) >>) : v \in {Num(10), Num(425)} }

NextUpdates ==
    \/ \E options \in DispatchOptions : start(options, FALSE)
    \/ \E body \in RuleBodies : postRulesWithin(body, MaxUpdates)
    \/ \E i \in 1..Len(pending), err \in BOOLEAN : saveCallback(i, err)
    \/ \E delta \in UpdateDeltas, chosen \in SUBSET (1..Len(subscriptions)) :
          emit(delta, chosen)
    \/ busConnect

SpecUpdates == Init /\ [][NextUpdates]_vars

(***************************************************************************)
(* The path check alone, on every pair of strings up to MaxLen characters  *)
(* of PathAlphabet and on the paths of the documentation.                  *)
(***************************************************************************)
MaxLen == 3

PathAlphabet == {"a", ".", "*"}

StringsUpTo(n) == UNION { [1..k -> PathAlphabet] : k \in 0..n }

PathStrings ==
    StringsUpTo(MaxLen)
      \cup {navigation_all, navigation_position, navigation, electrical_navigation}

InitPath ==
    /\ EngineIdle
    /\ probe \in [rulePath : PathStrings, path : PathStrings, result : {"none"}]

checkPath ==
    /\ probe.result = "none"
    /\ probe' = [probe EXCEPT !.result = pathMatch(probe.rulePath, probe.path)]
    /\ UNCHANGED <<mqttClient, connected, exportRules, activeSubscriptions,
                   lastSentValues, currentConfig, unsubscribes, orphaned,
                   subscriptions, pending, lifecycle, step, inflight, outdated>>

NextPath == checkPath

SpecPath == InitPath /\ [][NextPath]_vars

(***************************************************************************)
(* The source check alone: rule sources that are unset, empty, blank, a    *)
(* label, a label in other case or padded, against updates whose $source   *)
(* and source.label are unset, empty or a label.                           *)
(***************************************************************************)
gps0_upper == <<"G", "P", "S", "0">>
gps0_padded == <<" ", "g", "p", "s", "0">>
blank == <<" ", " ">>

RuleSources == {undefined, <<>>, <<" ">>, blank, gps0, gps0_upper, gps0_padded, pypilot}

UpdateLabels == {undefined, <<>>, gps0, gps0_upper, pypilot}

InitSource ==
    /\ EngineIdle
    /\ probe \in [ruleSource : RuleSources, src : UpdateLabels, label : UpdateLabels,
                  result : {"none"}]

checkSource ==
    /\ probe.result = "none"
    /\ probe' = [probe EXCEPT !.result =
                    IF sourceMatch(probe.ruleSource, Update(probe.src, probe.label, <<>>))
                    THEN "true" ELSE "false"]
    /\ UNCHANGED <<mqttClient, connected, exportRules, activeSubscriptions,
                   lastSentValues, currentConfig, unsubscribes, orphaned,
                   subscriptions, pending, lifecycle, step, inflight, outdated>>

NextSource == checkSource

SpecSource == InitSource /\ [][NextSource]_vars

(***************************************************************************)
(* The exclusion check inside the search: a list of two rules, the first   *)
(* with an exclusion list, the second matching everything, searched for a  *)
(* position update from gps0 of a delta with or without a context.         *)
(***************************************************************************)
mmsi_other == <<"2", "1", "1">>
mmsi_none == <<"9", "9", "9">>

ExcludeLists ==
    { undefined, <<>>, blank, own_mmsi, mmsi_other, mmsi_none,
      mmsi_other \o <<",", " ">> \o own_mmsi,
      <<" ">> \o mmsi_other \o <<" ">>,
      mmsi_none \o <<",">> \o mmsi_none,
      mmsi_none \o <<",">> }

ExcludeContexts == {ctx_own, ctx_ais, vessels_self, undefined}

\* The two rules searched: the one with the exclusion list, then a catch-all.
ExcludeRules(excludeMMSI, path, source) ==
    << ExportRule("first", undefined, path, source, excludeMMSI, TRUE, 1000, 0,
                  FALSE, "full", "false", undefined),
       ExportRule("rest", undefined, STAR, <<>>, undefined, TRUE, 1000, 0,
                  FALSE, "full", "false", undefined) >>

InitExclude ==
    /\ EngineIdle
    /\ probe \in [excludeMMSI : ExcludeLists, context : ExcludeContexts,
                  path : {STAR, navigation_all}, source : {<<>>, gps0},
                  result : {-1}]

checkExclude ==
    /\ probe.result = -1
    /\ probe' = [probe EXCEPT !.result =
                    findRule(ExcludeRules(probe.excludeMMSI, probe.path, probe.source), 1,
                             DeltaOf(probe.context, << PathValue(navigation_position, Num(10)) >>),
                             Update(gps0, undefined, << PathValue(navigation_position, Num(10)) >>),
                             PathValue(navigation_position, Num(10))).idx]
    /\ UNCHANGED <<mqttClient, connected, exportRules, activeSubscriptions,
                   lastSentValues, currentConfig, unsubscribes, orphaned,
                   subscriptions, pending, lifecycle, step, inflight, outdated>>

NextExclude == checkExclude

SpecExclude == InitExclude /\ [][NextExclude]_vars

(***************************************************************************)
(* The topic alone: prefixes that are empty, plain or dotted; rules        *)
(* without template, with an empty one, with the documented one, with a    *)
(* token twice and with dots of its own.                                   *)
(***************************************************************************)
prefix_dotted == <<"m", "y", ".", "b", "o", "a", "t">>
template_twice == <<"{", "p", "a", "t", "h", "}", "/", "{", "p", "a", "t", "h", "}">>
template_dotted == <<"x", ".">> \o tok_context \o <<".">> \o tok_context

TopicPrefixes == {<<>>, marine, prefix_dotted}

TopicTemplates == {undefined, <<>>, template_m, template_twice, template_dotted}

TopicContexts == {vessels_self, ctx_ais}

TopicPaths == {navigation_position, navigation, electrical_navigation}

TopicRule(template) ==
    ExportRule("topic", undefined, STAR, <<>>, undefined, TRUE, 1000, 0, FALSE, "full", "false", template)

InitTopic ==
    /\ EngineIdle
    /\ probe \in [prefix : TopicPrefixes, template : TopicTemplates,
                  context : TopicContexts, path : TopicPaths, result : {undefined}]

checkTopic ==
    /\ probe.result = undefined
    /\ probe' = [probe EXCEPT !.result =
                    buildTopic(probe.prefix, TopicRule(probe.template), probe.context,
                               probe.path)]
    /\ UNCHANGED <<mqttClient, connected, exportRules, activeSubscriptions,
                   lastSentValues, currentConfig, unsubscribes, orphaned,
                   subscriptions, pending, lifecycle, step, inflight, outdated>>

NextTopic == checkTopic

SpecTopic == InitTopic /\ [][NextTopic]_vars

(***************************************************************************)
(* The payload alone: the three settings of payloadFormat (the two of the  *)
(* type and another string), for a delta of two value updates, the first   *)
(* of every type of value, with and without a context.                     *)
(***************************************************************************)
PayloadFormats == {"value-only", "full", "compact"}

PayloadRule(format) ==
    ExportRule("payload", undefined, STAR, <<>>, undefined, TRUE, 1000, 0, FALSE, format, "false", undefined)

PayloadDelta(context, value, other) ==
    DeltaOf(context, << PathValue(navigation_position, value), PathValue(navigation, other) >>)

InitPayload ==
    /\ EngineIdle
    /\ probe \in [format : PayloadFormats, value : Values, other : {Num(425), Str(one)},
                  context : {ctx_own, undefined}, result : {<<>>}]

\* The payloads of the two value updates of the delta.
checkPayload ==
    /\ probe.result = <<>>
    /\ probe' = [probe EXCEPT !.result =
                    << buildPayload(PayloadRule(probe.format),
                                    PayloadDelta(probe.context, probe.value, probe.other),
                                    probe.value),
                       buildPayload(PayloadRule(probe.format),
                                    PayloadDelta(probe.context, probe.value, probe.other),
                                    probe.other) >>]
    /\ UNCHANGED <<mqttClient, connected, exportRules, activeSubscriptions,
                   lastSentValues, currentConfig, unsubscribes, orphaned,
                   subscriptions, pending, lifecycle, step, inflight, outdated>>

NextPayload == checkPayload

SpecPayload == InitPayload /\ [][NextPayload]_vars

(***************************************************************************)
(* One dispatch alone: publishToMQTT for a position of the own vessel, the *)
(* rule having sendOnChange true, false or unset, the change map holding   *)
(* nothing or a value for the key, and possibly a value for another key.   *)
(***************************************************************************)
FilterKey == valueKey(ctx_own, navigation_position)

OtherKey == valueKey(ctx_own, navigation)

FilterRule(sendOnChange) ==
    ExportRule("filter", undefined, STAR, <<>>, undefined, TRUE, 1000, 0, FALSE, "value-only", sendOnChange, undefined)

\* The change map before the dispatch.
FilterMap(stored, other) ==
    [k \in (IF stored = <<>> THEN {} ELSE {FilterKey}) \cup (IF other THEN {OtherKey} ELSE {})
       |-> IF k = FilterKey THEN stored[1] ELSE Num(425)]

InitFilter ==
    /\ EngineIdle
    /\ probe \in [stored : {<<>>} \cup {<<v>> : v \in Values}, other : BOOLEAN,
                  value : Values, sendOnChange : {"true", "false", "undefined"},
                  result : {<<>>}]

checkFilter ==
    /\ probe.result = <<>>
    /\ probe' = [probe EXCEPT !.result =
                    << publishToMQTT(FilterMap(probe.stored, probe.other), <<>>,
                                     DeltaOf(ctx_own, << PathValue(navigation_position, probe.value) >>),
                                     Update(gps0, undefined, << PathValue(navigation_position, probe.value) >>),
                                     PathValue(navigation_position, probe.value),
                                     FilterRule(probe.sendOnChange)) >>]
    /\ UNCHANGED <<mqttClient, connected, exportRules, activeSubscriptions,
                   lastSentValues, currentConfig, unsubscribes, orphaned,
                   subscriptions, pending, lifecycle, step, inflight, outdated>>

NextFilter == checkFilter

SpecFilter == InitFilter /\ [][NextFilter]_vars

(***************************************************************************)
(* The keys of the change filter alone: a value recorded for one context   *)
(* and path, then a value checked for another.                             *)
(***************************************************************************)
ctx_urn == SubSeq(ctx_ais, 1, 24)
path_colon == mmsi_other \o <<":">> \o navigation_position

KeyContexts == {ctx_own, ctx_ais, ctx_urn, vessels_self}
KeyPaths == {navigation_position, navigation, electrical_navigation, path_colon}
KeyValues == {Num(10), Num(425)}

InitKey ==
    /\ EngineIdle
    /\ probe \in [context1 : KeyContexts, path1 : KeyPaths, value1 : KeyValues,
                  context2 : KeyContexts, path2 : KeyPaths, value2 : KeyValues,
                  result : {<<>>}]

checkKey ==
    /\ probe.result = <<>>
    /\ probe' = [probe EXCEPT !.result =
                    << checkValueChange(
                         checkValueChange(EmptyMap, probe.context1, probe.path1,
                                          probe.value1).lsv,
                         probe.context2, probe.path2, probe.value2) >>]
    /\ UNCHANGED <<mqttClient, connected, exportRules, activeSubscriptions,
                   lastSentValues, currentConfig, unsubscribes, orphaned,
                   subscriptions, pending, lifecycle, step, inflight, outdated>>

NextKey == checkKey

SpecKey == InitKey /\ [][NextKey]_vars

(***************************************************************************)
(* The properties.  They read `step`: the value updates of the emission    *)
(* are the log entries of its callbacks.                                   *)
(***************************************************************************)
EntryUpdate(e) == step.delta.updates[e.ui]
EntryValue(e) == step.delta.updates[e.ui].values[e.vi]

\* Rule r passes the enabled, path, source and exclusion checks for entry e.
Passes(r, e) == ruleMatches(r, step.delta, EntryUpdate(e), EntryValue(e)) = "true"

\* The publish calls caused by the entries of the log before entry k.
RECURSIVE PublishedBefore(_, _)
PublishedBefore(log, k) ==
    IF k <= 1 THEN 0 ELSE PublishedBefore(log, k - 1) + log[k - 1].published

\* The publish call that the settings of rule r give for entry e.
MessageOf(r, e) ==
    publishCall(topicPrefix, step.delta, contextOf(step.delta), EntryValue(e).path,
                EntryValue(e).value, r)

\* Same type and same content; objects by their members, whatever their order.
DeepEqual(v, w) ==
    /\ v.t = w.t /\ v.n = w.n /\ v.s = w.s /\ v.b = w.b
    /\ {v.o[i] : i \in 1..Len(v.o)} = {w.o[i] : i \in 1..Len(w.o)}

\* C1: for every value update handled against a rule list, the rule used is the
\* earliest rule of the list that passes the checks; the change filter is
\* consulted according to that rule's sendOnChange and a publish carries that
\* rule's qos and retain, the topic of its template and the payload of its
\* format; if no rule passes, nothing is published.
C1_FirstMatchWins ==
    step.op = "emit" =>
      \A ci \in 1..Len(step.calls) :
        LET c == step.calls[ci]
        IN  \A k \in 1..Len(c.log) :
              LET e == c.log[k]
              IN  /\ ~e.threw
                  /\ e.rule = 0 =>
                       /\ \A i \in 1..Len(c.rules) : ~Passes(c.rules[i], e)
                       /\ e.published = 0
                  /\ e.rule # 0 =>
                       /\ Passes(c.rules[e.rule], e)
                       /\ \A j \in 1..(e.rule - 1) : ~Passes(c.rules[j], e)
                       /\ e.consulted = (c.rules[e.rule].sendOnChange = "true")
                       /\ e.published = 1 =>
                            c.pubs[PublishedBefore(c.log, k) + 1] = MessageOf(c.rules[e.rule], e)

\* A value update that two rules match, published with the settings of the
\* first, which differ from those of the second.
C1_Witness ==
    /\ step.op = "emit"
    /\ \E ci \in 1..Len(step.calls) :
         LET c == step.calls[ci]
         IN  \E k \in 1..Len(c.log) :
               /\ c.log[k].rule = 1
               /\ c.log[k].published = 1
               /\ Len(c.rules) >= 2
               /\ Passes(c.rules[2], c.log[k])
               /\ MessageOf(c.rules[2], c.log[k]) # MessageOf(c.rules[1], c.log[k])
               /\ c.rules[2].sendOnChange # c.rules[1].sendOnChange

\* The publish calls one emission has caused for value update (ui, vi), over all
\* the callbacks it went to.
RECURSIVE PublishesFor(_, _, _)
PublishesFor(calls, ui, vi) ==
    IF Len(calls) = 0 THEN 0
    ELSE Cardinality({k \in 1..Len(calls[1].log) :
                        /\ calls[1].log[k].ui = ui /\ calls[1].log[k].vi = vi
                        /\ calls[1].log[k].published = 1})
           + PublishesFor(Tail(calls), ui, vi)

\* C2: each value update the stream source emits causes at most one publish
\* call, over all the subscriptions it is delivered through.
C2_OnePublishPerUpdate ==
    step.op = "emit" =>
      \A ui \in 1..Len(step.delta.updates) :
        \A vi \in 1..Len(step.delta.updates[ui].values) :
          PublishesFor(step.calls, ui, vi) <= 1

\* The value updates of step st for which a rule was selected, in the order
\* handled: key, value, the sendOnChange of the rule, publish calls caused.
RECURSIVE HandledIn(_, _)
HandledIn(st, ci) ==
    IF ci > Len(st.calls) THEN <<>>
    ELSE LET c == st.calls[ci]
             matched == SelectSeq(c.log, LAMBDA e : e.rule # 0)
         IN  [k \in 1..Len(matched) |->
                [key |-> valueKey(contextOf(st.delta),
                                  st.delta.updates[matched[k].ui].values[matched[k].vi].path),
                 value |-> st.delta.updates[matched[k].ui].values[matched[k].vi].value,
                 sendOnChange |-> c.rules[matched[k].rule].sendOnChange,
                 published |-> matched[k].published]]
               \o HandledIn(st, ci + 1)

Handled(st) == IF st.op = "emit" /\ st.connected THEN HandledIn(st, 1) ELSE <<>>

\* b is handled right after a, for the same key, both through rules with
\* sendOnChange: a repeated value is not published, a different one is.
InARow(a, b) ==
    (a.key = b.key /\ a.sendOnChange = "true" /\ b.sendOnChange = "true") =>
        IF DeepEqual(a.value, b.value) THEN b.published = 0 ELSE b.published = 1

\* C3: with sendOnChange, a value repeated right after itself for the same key
\* while the bus is connected is not published again, and a different value
\* after it is published; without sendOnChange every delivery is published.
C3_ChangeFilterIdempotence ==
    [][ LET now == Handled(step')
            was == Handled(step)
        IN  /\ \A k \in 1..Len(now) : now[k].sendOnChange = "false" => now[k].published = 1
            /\ \A k \in 1..(Len(now) - 1) : InARow(now[k], now[k + 1])
            /\ (Len(was) > 0 /\ Len(now) > 0) => InARow(was[Len(was)], now[1]) ]_vars

\* C4: when the change filter is consulted for a key that has a stored value, the
\* value is suppressed exactly when it has the type and the content of the stored
\* value.
C4_DeepEquality ==
    step.op = "emit" =>
      \A ci \in 1..Len(step.calls) :
        \A k \in 1..Len(step.calls[ci].log) :
          LET e == step.calls[ci].log[k]
          IN  (e.consulted /\ e.stored # <<>>) =>
                ((e.published = 0) <=> DeepEqual(EntryValue(e).value, e.stored[1]))

\* C5: when the persistence callback of a rule-set update reports an error, the
\* rule set in memory is the one from before the request, the plan and the
\* subscriptions are untouched, and the request is answered with a failure.
\* (Stated for a callback that runs right after its request.)
C5_PersistenceFailure ==
    [][ (/\ step.op = "postRules" /\ step.status = 0 /\ Len(pending) = 1
         /\ step'.op = "saveCallback" /\ step'.err)
        => /\ exportRules' = step.before
           /\ activeSubscriptions' = activeSubscriptions
           /\ subscriptions' = subscriptions
           /\ unsubscribes' = unsubscribes
           /\ step'.status >= 400 ]_vars

\* The rule sets the host or the administrator may hand to the engine.
SubmittedRuleSets ==
    RuleSets \cup {getDefaultExportRules} \cup {o.exportRules : o \in StartOptions}

\* The enabled rules of rule set rs for a context pattern, in stored order.
GroupOf(rs, context) ==
    SelectSeq(rs, LAMBDA r : r.enabled /\ groupContext(r) = context)

FromOneRuleSet(rules, context) ==
    \E rs \in SubmittedRuleSets : rules = GroupOf(rs, context)

\* C6: under every interleaving of rule-set updates with emissions, the rule
\* list of every subscription, and so the list every match evaluates, is made of
\* the rules of one single rule set.
C6_AtomicReplacement ==
    /\ \A i \in 1..Len(subscriptions) :
         FromOneRuleSet(subscriptions[i].rules, subscriptions[i].context)
    /\ \A ci \in 1..Len(step.calls) :
         FromOneRuleSet(step.calls[ci].rules, step.calls[ci].context)

\* A match made while a rule-set update is in flight, against the rules of the
\* old rule set.
C6_Witness ==
    /\ step.op = "emit"
    /\ step.connected
    /\ pending # <<>>
    /\ \E ci \in 1..Len(step.calls) :
         /\ step.calls[ci].log # <<>>
         /\ step.calls[ci].rules # GroupOf(exportRules, step.calls[ci].context)

\* C7: while the engine is stopped no subscription of the engine is live and
\* the plan is empty.
C7_StoppedMeansNoSubscriptions ==
    lifecycle = "stopped" =>
        /\ subscriptions = <<>>
        /\ activeSubscriptions = <<>>

\* C8: from stop until the next start no emission causes a publish call.
C8_NoWorkAfterStop ==
    (lifecycle = "stopped" /\ step.op = "emit") => step.pubs = <<>>

\* A delta delivered after stop, through a subscription created after stop.
C8_Witness ==
    /\ lifecycle = "stopped"
    /\ step.op = "emit"
    /\ step.calls # <<>>

\* C9: an emission handled while the bus client is absent or not connected
\* causes no publish call and raises nothing; publish calls are made only while
\* an emission (or a test publish) is handled, and those of an emission are for
\* value updates of the delta being delivered.
C9_DisconnectedBus ==
    /\ (step.op = "emit" /\ ~step.connected) => (step.pubs = <<>> /\ ~step.threw)
    /\ step.pubs # <<>> => step.op \in {"emit", "testMqtt"}
    /\ step.op = "emit" =>
         \A ci \in 1..Len(step.calls) :
           \A m \in 1..Len(step.calls[ci].pubs) :
             \E k \in 1..Len(step.calls[ci].log) :
               /\ step.calls[ci].log[k].rule # 0
               /\ step.calls[ci].pubs[m]
                    = MessageOf(step.calls[ci].rules[step.calls[ci].log[k].rule],
                                step.calls[ci].log[k])

\* A delta handled while the bus client exists and is not connected, after
\* values were published.
C9_Witness ==
    /\ step.op = "emit"
    /\ ~step.connected
    /\ mqttClient # 0
    /\ step.calls # <<>>
    /\ lastSentValues # EmptyMap

\* What the claim says of the path check: equal, or the rule path is "*", or
\* the rule path ends with "*" and the path is the rest of it followed by
\* anything.
PathCheckPasses(rulePath, path) ==
    \/ rulePath = path
    \/ rulePath = STAR
    \/ /\ Len(rulePath) > 0
       /\ rulePath[Len(rulePath)] = "*"
       /\ \E n \in 0..Len(path) :
            path = [i \in 1..(Len(rulePath) - 1) |-> rulePath[i]]
                     \o [i \in 1..n |-> path[Len(path) - n + i]]

\* C10: the path check passes exactly when the rule path equals the path, is
\* "*", or ends with "*" and the path starts with what precedes that "*";
\* "navigation*" passes for "navigation.position" and "navigation" and fails
\* for "electrical.navigation".
C10_PathCheck ==
    probe.result # "none" =>
        /\ probe.result = (IF PathCheckPasses(probe.rulePath, probe.path)
                           THEN "true" ELSE "false")
        /\ probe.rulePath = STAR => probe.result = "true"
        /\ (probe.rulePath = navigation_all
              /\ probe.path \in {navigation_position, navigation}) => probe.result = "true"
        /\ (probe.rulePath = navigation_all /\ probe.path = electrical_navigation)
              => probe.result = "false"

\* The check evaluated for a wildcard rule path and a longer path it covers.
C10_Witness ==
    /\ probe.result = "true"
    /\ probe.rulePath = navigation_all
    /\ probe.path = navigation_position


\* The source label of an update: its $source, or without one the label of its
\* source object.
LabelOf(src, label) == IF src # undefined /\ src # <<>> THEN src ELSE label

\* A rule source that is unset, empty or made of blanks only.
BlankSource(s) == s = undefined \/ \A i \in 1..Len(s) : s[i] = " "

\* C11: the source check passes exactly when the rule's source is unset, empty
\* or blank, or equals the update's source label character for character; a
\* rule for "pypilot" fails it for an update labelled "gps0", and a rule whose
\* source is the update's label passes it.
C11_SourceCheck ==
    probe.result # "none" =>
        /\ probe.result = (IF \/ BlankSource(probe.ruleSource)
                              \/ probe.ruleSource = LabelOf(probe.src, probe.label)
                           THEN "true" ELSE "false")
        /\ (probe.ruleSource = pypilot /\ LabelOf(probe.src, probe.label) = gps0)
              => probe.result = "false"
        /\ (probe.ruleSource = gps0_upper /\ LabelOf(probe.src, probe.label) = gps0)
              => probe.result = "false"
        /\ probe.ruleSource = LabelOf(probe.src, probe.label) => probe.result = "true"

\* The check evaluated for a rule whose source differs from the update's label
\* only by a leading blank, and failed.
C11_Witness ==
    /\ probe.result = "false"
    /\ probe.ruleSource = gps0_padded
    /\ probe.src = undefined
    /\ probe.label = gps0


\* The pieces of s between its commas.
Pieces(s) ==
    { SubSeq(s, x[1], x[2]) :
        x \in { y \in (1..(Len(s) + 1)) \X (0..Len(s)) :
                  /\ y[1] <= y[2] + 1
                  /\ \A k \in y[1]..y[2] : s[k] # ","
                  /\ (y[1] = 1 \/ s[y[1] - 1] = ",")
                  /\ (y[2] = Len(s) \/ s[y[2] + 1] = ",") } }

\* p without its leading and trailing blanks.
Stripped(p) ==
    IF \A k \in 1..Len(p) : p[k] = " " THEN <<>>
    ELSE SubSeq(p,
                CHOOSE a \in 1..Len(p) : p[a] # " " /\ \A k \in 1..(a - 1) : p[k] = " ",
                CHOOSE b \in 1..Len(p) : p[b] # " " /\ \A k \in (b + 1)..Len(p) : p[k] = " ")

\* e occurs in c as a substring.
Contains(c, e) ==
    \E k \in 0..(Len(c) - Len(e)) : \A m \in 1..Len(e) : c[k + m] = e[m]

\* The exclusion list is not blank and the context identifier contains one of
\* its trimmed entries.
ExcludedBy(excludeMMSI, context) ==
    /\ excludeMMSI # undefined
    /\ \E k \in 1..Len(excludeMMSI) : excludeMMSI[k] # " "
    /\ context # undefined
    /\ \E p \in Pieces(excludeMMSI) : Contains(context, Stripped(p))

\* C12: a rule with a non-blank exclusion list is not selected for an update of
\* a context that contains one of the trimmed entries of the list, whatever its
\* path and source checks say; the search goes on to the rule after it.
C12_Exclusion ==
    (probe.result # -1 /\ ExcludedBy(probe.excludeMMSI, probe.context))
        => probe.result = 2

\* An update of the own vessel, excluded by the second entry of a list with a
\* blank after the comma, for a rule whose path and source checks pass.
C12_Witness ==
    /\ probe.result = 2
    /\ probe.excludeMMSI = mmsi_other \o <<",", " ">> \o own_mmsi
    /\ probe.context = ctx_own
    /\ probe.source = gps0
    /\ probe.path = navigation_all


\* The period a rule asks for: rule.period, or 1000 when it has none.
PeriodOf(rule) == IF rule.period # 0 THEN rule.period ELSE 1000

\* C13: the subscription of every context group holds exactly one request per
\* distinct path among the rules of the group, with the least period of the
\* rules having that path.
C13_RequestsPerGroup ==
    \A i \in 1..Len(subscriptions) :
      LET s == subscriptions[i]
      IN  /\ \A a, b \in 1..Len(s.subscribe) :
               a # b => s.subscribe[a].path # s.subscribe[b].path
          /\ {s.subscribe[a].path : a \in 1..Len(s.subscribe)}
               = {s.rules[k].path : k \in 1..Len(s.rules)}
          /\ \A a \in 1..Len(s.subscribe) :
               \A k \in 1..Len(s.rules) :
                 s.rules[k].path = s.subscribe[a].path
                   => s.subscribe[a].period <= PeriodOf(s.rules[k])


\* The last handler rebuilt the plan: start of an enabled configuration, or a
\* persistence callback without error.
Rebuilt ==
    \/ step.op = "start" /\ currentConfig.enabled
    \/ step.op = "saveCallback" /\ ~step.err

\* The context a rule belongs to: its own, or the self context when it has none.
ContextOfRule(r) ==
    IF r.context = undefined \/ r.context = <<>> THEN vessels_self ELSE r.context

\* C14: after every rebuild the plan has one group per distinct context among
\* the enabled rules of the rule set in memory, a rule without context counting
\* for "vessels.self"; each group holds the enabled rules of its context in
\* stored order; a disabled rule is in no group.
C14_PlanGrouping ==
    Rebuilt =>
        /\ \A a, b \in 1..Len(activeSubscriptions) :
             a # b => activeSubscriptions[a].key # activeSubscriptions[b].key
        /\ {activeSubscriptions[a].key : a \in 1..Len(activeSubscriptions)}
             = {ContextOfRule(exportRules[k]) :
                  k \in {j \in 1..Len(exportRules) : exportRules[j].enabled}}
        /\ \A a \in 1..Len(activeSubscriptions) :
             /\ activeSubscriptions[a].val
                  = SelectSeq(exportRules,
                              LAMBDA r : r.enabled
                                           /\ ContextOfRule(r) = activeSubscriptions[a].key)
             /\ \A k \in 1..Len(activeSubscriptions[a].val) :
                  activeSubscriptions[a].val[k].enabled

\* A plan rebuilt from a rule set with a disabled rule and a rule without
\* context: one group of two rules.
C14_Witness ==
    /\ Rebuilt
    /\ \E k \in 1..Len(exportRules) : ~exportRules[k].enabled
    /\ \E k \in 1..Len(exportRules) :
         exportRules[k].enabled /\ exportRules[k].context = undefined
    /\ Len(activeSubscriptions) = 1
    /\ Len(activeSubscriptions[1].val) = 2


\* The subscription installed for group g of a plan.
InstalledFor(g, s) == s.context = g.key /\ s.rules = g.val

\* C15: a rebuild leaves exactly the subscriptions installed for the new plan
\* live, one per group; it has invoked every unsubscribe handle of the previous
\* plan once and keeps none of them; and a rebuild right after a rebuild, from
\* the same rule set, gives the same plan and as many live subscriptions.
C15_RebuildTotalIdempotent ==
    [][ Rebuilt' =>
          /\ Len(subscriptions') = Len(activeSubscriptions')
          /\ \A i \in 1..Len(subscriptions') :
               InstalledFor(activeSubscriptions'[i], subscriptions'[i])
          /\ step'.unsubscribed = unsubscribes
          /\ unsubscribes' = subscriptions'
          /\ (Rebuilt /\ exportRules' = exportRules) =>
               /\ activeSubscriptions' = activeSubscriptions
               /\ Len(subscriptions') = Len(subscriptions) ]_vars

\* A rebuild that tore down the subscriptions of a different previous plan.
C15_Witness ==
    /\ Rebuilt
    /\ step.unsubscribed # <<>>
    /\ subscriptions # <<>>
    /\ Len(step.unsubscribed) # Len(subscriptions)


topic_plain == <<"v", "e", "s", "s", "e", "l", "s", "/", "s", "e", "l", "f", "/", "n", "a", "v", "i", "g", "a", "t", "i", "o", "n", "/", "p", "o", "s", "i", "t", "i", "o", "n">>
topic_marine == <<"m", "a", "r", "i", "n", "e", "/", "v", "e", "s", "s", "e", "l", "s", "/", "s", "e", "l", "f", "/", "n", "a", "v", "i", "g", "a", "t", "i", "o", "n", "/", "p", "o", "s", "i", "t", "i", "o", "n">>
topic_m == <<"m", "/", "v", "e", "s", "s", "e", "l", "s", "/", "s", "e", "l", "f", "/", "n", "a", "v", "i", "g", "a", "t", "i", "o", "n", "/", "p", "o", "s", "i", "t", "i", "o", "n">>
topic_twice == <<"n", "a", "v", "i", "g", "a", "t", "i", "o", "n", "/", "p", "o", "s", "i", "t", "i", "o", "n", "/", "{", "p", "a", "t", "h", "}">>

\* s with every "." replaced by "/".
Slashed(s) == [i \in 1..Len(s) |-> IF s[i] = "." THEN "/" ELSE s[i]]

\* s with its first occurrence of tok, if any, replaced by v.
SubstFirst(s, tok, v) ==
    IF ~Contains(s, tok) THEN s
    ELSE LET k == CHOOSE k \in 0..(Len(s) - Len(tok)) :
                     /\ SubSeq(s, k + 1, k + Len(tok)) = tok
                     /\ \A j \in 0..(k - 1) : SubSeq(s, j + 1, j + Len(tok)) # tok
         IN  SubSeq(s, 1, k) \o v \o SubSeq(s, k + Len(tok) + 1, Len(s))

\* "prefix/" for a configured prefix, else nothing.
PrefixPart(prefix) == IF prefix = <<>> THEN <<>> ELSE prefix \o <<"/">>

HasTemplate(template) == template # undefined /\ template # <<>>

\* C16: without topicTemplate the topic is "context/path", preceded by
\* "prefix/" when a prefix is configured, with every "." of the result replaced
\* by "/"; "vessels.self" and "navigation.position" give
\* "vessels/self/navigation/position", with prefix "marine"
\* "marine/vessels/self/navigation/position".
C16_DefaultTopic ==
    (probe.result # undefined /\ ~HasTemplate(probe.template)) =>
        /\ probe.result
             = Slashed(PrefixPart(probe.prefix) \o probe.context \o <<"/">> \o probe.path)
        /\ (probe.context = vessels_self /\ probe.path = navigation_position
              /\ probe.prefix = <<>>) => probe.result = topic_plain
        /\ (probe.context = vessels_self /\ probe.path = navigation_position
              /\ probe.prefix = marine) => probe.result = topic_marine

\* C17: with a topicTemplate the topic is the template with the first
\* "{context}" and then the first "{path}" replaced by their values, then every
\* "." of that replaced by "/", then "prefix/" put in front unchanged;
\* "m/{context}/{path}" gives "m/vessels/self/navigation/position" and a second
\* occurrence of a token stays as written.
C17_CustomTopic ==
    (probe.result # undefined /\ HasTemplate(probe.template)) =>
        /\ probe.result
             = PrefixPart(probe.prefix)
                 \o Slashed(SubstFirst(SubstFirst(probe.template, tok_context, probe.context),
                                       tok_path, probe.path))
        /\ (probe.template = template_m /\ probe.context = vessels_self
              /\ probe.path = navigation_position /\ probe.prefix = <<>>)
             => probe.result = topic_m
        /\ (probe.template = template_twice /\ probe.path = navigation_position
              /\ probe.prefix = <<>>)
             => probe.result = topic_twice

\* A template with "{path}" twice rendered behind a dotted prefix: the prefix
\* keeps its dot and the second token is still there.
C17_Witness ==
    /\ probe.result = prefix_dotted \o <<"/">> \o topic_twice
    /\ probe.template = template_twice
    /\ probe.prefix = prefix_dotted


text_425 == <<"4", "2", ".", "5">>
text_null == <<"n", "u", "l", "l">>
text_true == <<"t", "r", "u", "e">>
text_object == <<"{", "\"", "a", "\"", ":", "1", ",", "\"", "b", "\"", ":", "2", "}">>
text_context == <<"\"", "c", "o", "n", "t", "e", "x", "t", "\"", ":", "\"", "v", "e", "s", "s", "e", "l", "s", ".", "u", "r", "n", ":", "m", "r", "n", ":", "i", "m", "o", ":", "m", "m", "s", "i", ":", "3", "6", "8", "3", "9", "6", "2", "3", "0", "\"">>
text_path == <<"\"", "p", "a", "t", "h", "\"", ":", "\"", "n", "a", "v", "i", "g", "a", "t", "i", "o", "n", ".", "p", "o", "s", "i", "t", "i", "o", "n", "\"">>

\* The plain string form of a primitive value.
PlainForm(v) ==
    CASE v.t = "string" -> v.s
      [] v.t = "boolean" -> IF v.b THEN text_true ELSE <<"f", "a", "l", "s", "e">>
      [] v.t = "number" -> numberToString(v.n)

\* C18: with payloadFormat value-only the payload of a primitive value is its
\* plain string form, without quotes (42.5 gives "42.5"), and that of a
\* structured value the serialization of the value alone; with any other
\* payloadFormat the payload is the serialization of the whole delta, the same
\* for every value of the delta.
C18_PayloadFormat ==
    probe.result # <<>> =>
        IF probe.format = "value-only"
        THEN /\ probe.value.t \in {"string", "boolean", "number"}
                  => probe.result[1] = PlainForm(probe.value)
             /\ probe.value = Num(425) => probe.result[1] = text_425
             /\ probe.value = Str(one) => probe.result[1] = one
             /\ probe.value.t \in {"object", "null"}
                  => probe.result[1] = JSONstringify(probe.value)
             /\ probe.value = Null => probe.result[1] = text_null
             /\ probe.value = Obj(<< [k |-> <<"a">>, n |-> 10], [k |-> <<"b">>, n |-> 20] >>)
                  => probe.result[1] = text_object
        ELSE /\ probe.result[1] = probe.result[2]
             /\ probe.result[1]
                  = deltaToJSON(PayloadDelta(probe.context, probe.value, probe.other))
             /\ probe.context = ctx_own => Contains(probe.result[1], text_context)
             /\ Contains(probe.result[1], text_path)
             /\ Contains(probe.result[1], JSONstringify(probe.value))
             /\ Contains(probe.result[1], JSONstringify(probe.other))

\* A string sent as it is with value-only, in a delta whose other value has a
\* payload of its own.
C18_Witness ==
    /\ probe.format = "value-only"
    /\ probe.value = Str(one)
    /\ probe.result # <<>>
    /\ probe.result[1] = one
    /\ probe.result[2] # probe.result[1]


\* C19: a rule-set update whose rules field is not an array is answered at once
\* with a failure and an error text, makes no persistence call, and leaves the
\* rule set, the plan, the subscriptions and the last-value map as they were.
C19_MalformedUpdateRejected ==
    [][ (step'.op = "postRules" /\ step'.malformed) =>
          /\ step'.status >= 400
          /\ step'.error # ""
          /\ pending' = pending
          /\ exportRules' = exportRules
          /\ activeSubscriptions' = activeSubscriptions
          /\ subscriptions' = subscriptions
          /\ unsubscribes' = unsubscribes
          /\ lastSentValues' = lastSentValues ]_vars

\* A malformed update answered while the engine runs with rules, subscriptions
\* and stored values.
C19_Witness ==
    /\ step.op = "postRules"
    /\ step.malformed
    /\ exportRules # <<>>
    /\ subscriptions # <<>>
    /\ lastSentValues # EmptyMap


\* The publish calls the log of a callback accounts for.
RECURSIVE PublishedIn(_)
PublishedIn(log) == IF Len(log) = 0 THEN 0 ELSE log[1].published + PublishedIn(Tail(log))

\* C20: each value update delivered to a callback causes at most one publish
\* call; publish calls are made for deliveries (and the test publish) only,
\* never by the publish callback; and a publish callback, with or without an
\* error, changes nothing in the rule set, the plan, the subscriptions and the
\* last-value map.
C20_NoRetry ==
    [][ /\ step'.op = "emit" =>
             \A ci \in 1..Len(step'.calls) :
               /\ \A k \in 1..Len(step'.calls[ci].log) :
                    step'.calls[ci].log[k].published \in {0, 1}
               /\ Len(step'.calls[ci].pubs) = PublishedIn(step'.calls[ci].log)
        /\ step'.pubs # <<>> => step'.op \in {"emit", "testMqtt"}
        /\ step'.op = "publishCallback" =>
             /\ step'.pubs = <<>>
             /\ exportRules' = exportRules
             /\ activeSubscriptions' = activeSubscriptions
             /\ subscriptions' = subscriptions
             /\ unsubscribes' = unsubscribes
             /\ lastSentValues' = lastSentValues ]_vars

\* The bus has reported the failure of a publish call made under sendOnChange,
\* the value being stored.
C20_Witness ==
    /\ step.op = "publishCallback"
    /\ step.err
    /\ clientConnected
    /\ lastSentValues # EmptyMap
    /\ subscriptions # <<>>


\* What the claim asks of a rule set: distinct ids, a path in every rule, a qos
\* among the three levels, a period above 0.
RuleSetValid(rs) ==
    /\ \A a, b \in 1..Len(rs) : a # b => rs[a].id # rs[b].id
    /\ \A a \in 1..Len(rs) :
         /\ rs[a].path # undefined /\ rs[a].path # <<>>
         /\ rs[a].qos \in {0, 1, 2}
         /\ rs[a].period > 0

\* C21: after start and after every accepted rule-set update the rule set in
\* memory has distinct ids, non-empty paths, qos in {0,1,2} and periods above 0.
C21_RuleSetInvariants ==
    lifecycle # "constructed" => RuleSetValid(exportRules)


\* The value updates of a delta.
RECURSIVE ValueCount(_)
ValueCount(updates) ==
    IF Len(updates) = 0 THEN 0 ELSE Len(updates[1].values) + ValueCount(Tail(updates))

\* C22: an error raised while one value update is matched or formatted stays
\* with that value: nothing is thrown to the delivery callback, and every value
\* update of the delta is handled.
C22_ErrorIsolation ==
    (step.op = "emit" /\ step.connected) =>
        /\ ~step.threw
        /\ \A ci \in 1..Len(step.calls) :
             /\ Len(step.calls[ci].log) = ValueCount(step.delta.updates)
             /\ \A k \in 1..Len(step.calls[ci].log) : ~step.calls[ci].log[k].threw


\* Started with the enable flag false and not stopped since, with no bus client
\* and no live subscription.
Inert ==
    /\ lifecycle = "running"
    /\ ~currentConfig.enabled
    /\ mqttClient = 0
    /\ subscriptions = <<>>

\* C23: an engine started with the enable flag false, with no bus client and no
\* subscription, keeps none and publishes nothing whatever happens next, until
\* a start with the flag true.
C23_DisabledStaysInert ==
    [][ (Inert /\ ~(step'.op = "start" /\ currentConfig'.enabled)) =>
          /\ mqttClient' = 0
          /\ subscriptions' = <<>>
          /\ activeSubscriptions' = <<>>
          /\ step'.pubs = <<>> ]_vars


\* C24: under sendOnChange the first value delivered for a key the change map
\* holds nothing for is dispatched and becomes the key's last value, whatever
\* it is; the entries of other keys stay.
C24_FirstObservation ==
    (probe.result # <<>> /\ probe.sendOnChange = "true" /\ probe.stored = <<>>) =>
        /\ Len(probe.result[1].pubs) = 1
        /\ probe.result[1].consulted
        /\ FilterKey \in DOMAIN probe.result[1].lsv
        /\ probe.result[1].lsv[FilterKey] = probe.value
        /\ probe.other => (/\ OtherKey \in DOMAIN probe.result[1].lsv
                           /\ probe.result[1].lsv[OtherKey] = Num(425))

\* A null dispatched as the first value of its key, the map holding a value of
\* another key.
C24_Witness ==
    /\ probe.result # <<>>
    /\ probe.sendOnChange = "true"
    /\ probe.stored = <<>>
    /\ probe.other
    /\ probe.value = Null
    /\ Len(probe.result[1].pubs) = 1

\* C25: a dispatch through a rule with sendOnChange false does not consult the
\* change filter and leaves the change map as it was; the value is published.
C25_BypassLeavesFilter ==
    (probe.result # <<>> /\ probe.sendOnChange = "false") =>
        /\ ~probe.result[1].consulted
        /\ probe.result[1].lsv = FilterMap(probe.stored, probe.other)
        /\ Len(probe.result[1].pubs) = 1

\* A value that differs from the stored one, published past the filter, the
\* stored one kept.
C25_Witness ==
    /\ probe.result # <<>>
    /\ probe.sendOnChange = "false"
    /\ probe.stored = <<Num(10)>>
    /\ probe.value = Num(425)
    /\ probe.result[1].lsv[FilterKey] = Num(10)

\* C26: a rule with sendOnChange unset is handled as one with sendOnChange
\* true: the change filter is consulted and a value equal to the stored one is
\* not published.
C26_SendOnChangeDefault ==
    (probe.result # <<>> /\ probe.sendOnChange = "undefined") =>
        /\ probe.result[1].consulted
        /\ probe.stored = <<probe.value>> => probe.result[1].pubs = <<>>
        /\ probe.stored = <<>> => probe.result[1].lsv[FilterKey] = probe.value


\* A bus event or a publish callback was the last thing handled.
BusEvent(op) == op \in {"busConnect", "busClose", "busError", "busReconnect", "publishCallback"}

\* C27: a bus error, close, connect or reconnect event and a publish callback,
\* failed or not, leave the rule set, the plan, the subscriptions and the
\* running engine as they were; a start whose connect() throws leaves the
\* engine running with the subscriptions of its rule set installed.
C27_BusFailuresLeaveControlState ==
    [][ /\ BusEvent(step'.op) =>
             /\ exportRules' = exportRules
             /\ activeSubscriptions' = activeSubscriptions
             /\ subscriptions' = subscriptions
             /\ unsubscribes' = unsubscribes
             /\ lifecycle' = lifecycle
        /\ (step'.op = "start" /\ step'.err) =>
             /\ lifecycle' = "running"
             /\ Len(subscriptions') = Len(activeSubscriptions')
             /\ \A i \in 1..Len(subscriptions') :
                  /\ InstalledFor(activeSubscriptions'[i], subscriptions'[i])
                  /\ subscriptions'[i].rules
                       = SelectSeq(exportRules',
                                   LAMBDA r : r.enabled
                                     /\ ContextOfRule(r) = subscriptions'[i].context)
             /\ (\E k \in 1..Len(exportRules') : exportRules'[k].enabled)
                  => subscriptions' # <<>> ]_vars

\* A start that could not create the bus client and has installed its
\* subscriptions.
C27_Witness ==
    /\ step.op = "start"
    /\ step.err
    /\ mqttClient = 0
    /\ subscriptions # <<>>
    /\ lifecycle = "running"


\* C28: an entry of the last-value map, once recorded, is never removed: every
\* key of the map is still a key of the map after any operation.
C28_NoEviction ==
    [][\A k \in DOMAIN lastSentValues : k \in DOMAIN lastSentValues']_vars


\* The value updates handled by the callbacks ci, ci + 1, ... of emission st,
\* in the order they were handled, each with its key and its value.
RECURSIVE Decisions(_, _)
Decisions(st, ci) ==
    IF ci > Len(st.calls) THEN <<>>
    ELSE [k \in 1..Len(st.calls[ci].log) |->
            [key |-> valueKey(contextOf(st.delta),
                              st.delta.updates[st.calls[ci].log[k].ui]
                                .values[st.calls[ci].log[k].vi].path),
             value |-> st.delta.updates[st.calls[ci].log[k].ui]
                         .values[st.calls[ci].log[k].vi].value,
             consulted |-> st.calls[ci].log[k].consulted,
             published |-> st.calls[ci].log[k].published,
             stored |-> st.calls[ci].log[k].stored]]
           \o Decisions(st, ci + 1)

\* From map m, the decisions k, k + 1, ... of ds are each made against what
\* the decision before has left for the key, and leave the map `final`.
RECURSIVE Replayed(_, _, _, _)
Replayed(m, ds, k, final) ==
    IF k > Len(ds) THEN m = final
    ELSE LET d == ds[k]
             seen == IF d.key \in DOMAIN m THEN <<m[d.key]>> ELSE <<>>
         IN  /\ d.stored = seen
             /\ d.consulted =>
                  (d.published = 1
                     <=> (seen = <<>> \/ valueString(d.value) # valueString(seen[1])))
             /\ Replayed(IF d.consulted /\ d.published = 1
                         THEN MapSet(m, d.key, d.value) ELSE m,
                         ds, k + 1, final)

\* The place of value update vi of update ui among the value updates of a delta.
Position(updates, ui, vi) == ValueCount(SubSeq(updates, 1, ui - 1)) + vi

\* The publish calls of the callbacks ci, ci + 1, ... of emission st, in order.
RECURSIVE CallPubs(_, _)
CallPubs(st, ci) ==
    IF ci > Len(st.calls) THEN <<>> ELSE st.calls[ci].pubs \o CallPubs(st, ci + 1)

\* C29: a callback handles the value updates of a delta in the order of the
\* delta; each decision of the change filter is made against the value the
\* decision before it has left for the key, from the map as it was before the
\* emission up to the map after it; and the publish calls are made in the
\* order of the value updates that cause them.
C29_PerKeyOrdering ==
    [][ step'.op = "emit" =>
          /\ \A ci \in 1..Len(step'.calls) :
               LET c == step'.calls[ci]
               IN  /\ (step'.connected /\ ~step'.threw) =>
                        Len(c.log) = ValueCount(step'.delta.updates)
                   /\ \A k \in 1..Len(c.log) :
                        /\ Position(step'.delta.updates, c.log[k].ui, c.log[k].vi) = k
                        /\ c.log[k].published = 1 =>
                             c.pubs[PublishedBefore(c.log, k) + 1]
                               = publishCall(topicPrefix, step'.delta,
                                             contextOf(step'.delta),
                                             step'.delta.updates[c.log[k].ui]
                                               .values[c.log[k].vi].path,
                                             step'.delta.updates[c.log[k].ui]
                                               .values[c.log[k].vi].value,
                                             c.rules[c.log[k].rule])
          /\ step'.pubs = CallPubs(step', 1)
          /\ Replayed(lastSentValues, Decisions(step', 1), 1, lastSentValues') ]_vars

\* A value published because it differs from the value an earlier emission has
\* left for its key.
C29_Witness ==
    /\ step.op = "emit"
    /\ \E ci \in 1..Len(step.calls) : \E k \in 1..Len(step.calls[ci].log) :
         /\ step.calls[ci].log[k].consulted
         /\ step.calls[ci].log[k].stored # <<>>
         /\ step.calls[ci].log[k].published = 1
         /\ lastSentValues[Decisions(step, ci)[k].key] = Decisions(step, ci)[k].value
         /\ step.calls[ci].log[k].stored # << Decisions(step, ci)[k].value >>


topic_test == <<"t", "e", "s", "t", "/", "s", "i", "g", "n", "a", "l", "k", "-", "m", "q", "t", "t", "-", "e", "x", "p", "o", "r", "t", "-", "t", "e", "s", "t">>

\* C30: with a connected bus client the test publish makes exactly one publish
\* call, with qos 0, to "<prefix>/signalk-mqtt-export-test" ("test" for an
\* empty prefix) and answers success with that topic; without a connected
\* client it makes no publish call and answers a failure; the rule set, the
\* plan, the subscriptions and the last-value map stay as they were.
C30_TestPublish ==
    [][ step'.op = "testMqtt" =>
          /\ IF mqttClient # 0 /\ connected
             THEN /\ Len(step'.pubs) = 1
                  /\ step'.pubs[1].qos = 0
                  /\ step'.pubs[1].topic
                       = IF currentConfig.defined /\ currentConfig.topicPrefix # <<>>
                         THEN currentConfig.topicPrefix
                                \o SubSeq(topic_test, 5, Len(topic_test))
                         ELSE topic_test
                  /\ step'.status = 200
                  /\ step'.topic = step'.pubs[1].topic
             ELSE /\ step'.pubs = <<>>
                  /\ step'.status >= 400
                  /\ step'.topic = <<>>
          /\ exportRules' = exportRules
          /\ activeSubscriptions' = activeSubscriptions
          /\ subscriptions' = subscriptions
          /\ unsubscribes' = unsubscribes
          /\ lastSentValues' = lastSentValues ]_vars

\* A test publish answered with success while the prefix is empty and the
\* last-value map holds a value.
C30_Witness ==
    /\ step.op = "testMqtt"
    /\ step.status = 200
    /\ step.topic = topic_test
    /\ topicPrefix = <<>>
    /\ DOMAIN lastSentValues # {}

\* The decisions k, k + 1, ... of ds each find stored for the key, when the
\* change filter is consulted, the value most recently published for it; od
\* are the keys for which that is not so before decision k.
RECURSIVE StoredIsPublished(_, _, _)
StoredIsPublished(od, ds, k) ==
    IF k > Len(ds) THEN TRUE
    ELSE /\ (ds[k].consulted /\ ds[k].stored # <<>>) => ds[k].key \notin od
         /\ StoredIsPublished(IF ds[k].published = 0 THEN od
                              ELSE IF ~ds[k].consulted /\ ds[k].stored # <<>>
                                        /\ ds[k].stored[1] # ds[k].value
                              THEN od \cup {ds[k].key}
                              ELSE od \ {ds[k].key},
                              ds, k + 1)

\* C31: whenever the change filter is consulted for a key that has a stored
\* value, that value is the one most recently handed to publish for the key,
\* so that a value is suppressed only as the repetition of the last publish.
C31_SuppressionSound ==
    [][ step'.op = "emit" =>
          StoredIsPublished(outdated, Decisions(step', 1), 1) ]_vars


\* C35: a persistence callback leaves the rule set in memory as the request
\* submitted last has set it, and a callback without an error leaves exactly
\* the subscriptions of that rule set live, whatever rules its own request
\* had submitted; so after the callbacks of two updates in flight, in either
\* order, the rule set and the subscriptions are those of the update submitted
\* last.
C35_UpdatesConverge ==
    [][ /\ (step'.op = "postRules" /\ ~step'.malformed) =>
             /\ pending' = Append(pending, [newRules |-> exportRules'])
        /\ step'.op = "saveCallback" =>
             /\ exportRules' = exportRules
             /\ \E i \in 1..Len(pending) : step'.submitted = pending[i].newRules
        /\ (step'.op = "saveCallback" /\ ~step'.err) =>
             /\ {subscriptions'[i].context : i \in 1..Len(subscriptions')}
                  = {ContextOfRule(exportRules'[k]) :
                       k \in {j \in 1..Len(exportRules') : exportRules'[j].enabled}}
             /\ \A i \in 1..Len(subscriptions') :
                  /\ subscriptions'[i].rules
                       = GroupOf(exportRules', subscriptions'[i].context)
                  /\ \A j \in 1..Len(subscriptions') :
                       subscriptions'[i].context = subscriptions'[j].context => i = j ]_vars

\* The callback of an update has run last although another update was
\* submitted after it: the rule set and the subscriptions are those of the
\* other one.
C35_Witness ==
    /\ step.op = "saveCallback"
    /\ ~step.err
    /\ pending = <<>>
    /\ step.submitted = RulesFleet
    /\ exportRules = RulesLoose
    /\ subscriptions # <<>>
    /\ \A i \in 1..Len(subscriptions) :
         subscriptions[i].rules = GroupOf(RulesLoose, subscriptions[i].context)


\* C32: a value recorded for one context and path has no part in the decision
\* for another context and path: the value of the other pair is a first
\* observation, and the map holds one entry for each of the two pairs.
C32_KeysDoNotCollide ==
    (probe.result # <<>>
       /\ <<probe.context1, probe.path1>> # <<probe.context2, probe.path2>>) =>
        /\ probe.result[1].hasChanged
        /\ Cardinality(DOMAIN probe.result[1].lsv) = 2


\* C33: a value the change filter lets through is in the last-value map as
\* soon as the emission has been handled; a publish callback, with or without
\* an error, leaves the map as it is; and a value that repeats the stored one
\* right after a publish callback with an error is not published.
C33_RecordedBeforeOutcome ==
    [][ /\ step'.op = "emit" =>
             \A k \in 1..Len(Decisions(step', 1)) :
               LET ds == Decisions(step', 1)
               IN  (/\ ds[k].consulted /\ ds[k].published = 1
                    /\ \A j \in (k + 1)..Len(ds) :
                         ~(ds[j].key = ds[k].key /\ ds[j].consulted /\ ds[j].published = 1))
                     => /\ ds[k].key \in DOMAIN lastSentValues'
                        /\ lastSentValues'[ds[k].key] = ds[k].value
        /\ step'.op = "publishCallback" => lastSentValues' = lastSentValues
        /\ (step'.op = "emit" /\ step'.after = "failure" /\ step'.connected) =>
             \A k \in 1..Len(step'.calls[1].log) :
               LET d == Decisions(step', 1)[k]
               IN  (/\ d.consulted
                    /\ d.key \in DOMAIN lastSentValues
                    /\ \A j \in 1..(k - 1) : Decisions(step', 1)[j].key # d.key)
                     => (d.published = 0
                           <=> valueString(d.value) = valueString(lastSentValues[d.key])) ]_vars

\* Right after the bus has reported a publish as failed, the value stored for
\* the key arrives again and is not published.
C33_Witness ==
    /\ step.op = "emit"
    /\ step.after = "failure"
    /\ step.connected
    /\ step.pubs = <<>>
    /\ \E k \in 1..Len(step.calls[1].log) :
         /\ step.calls[1].log[k].consulted
         /\ step.calls[1].log[k].published = 0
         /\ step.calls[1].log[k].stored = << Decisions(step, 1)[k].value >>


C36_OneLiveClient == ~orphaned


\* C37: the rule with the exclusion list, whose path and source checks pass
\* for every update tried, is rejected only when the context contains an entry
\* of the list that is not empty after trimming; an empty entry, as the one
\* after the trailing comma of "999,", rejects nothing.
C37_EmptyEntryExcludesNothing ==
    (probe.result = 2) =>
        /\ probe.excludeMMSI # undefined
        /\ probe.context # undefined
        /\ \E p \in Pieces(probe.excludeMMSI) :
             /\ Stripped(p) # <<>>
             /\ Contains(probe.context, Stripped(p))

====
